---- MODULE Spec2Model ----
(***************************************************************************)
(* The SentencePiece-style tokenizer of examples/gptneox-wip/              *)
(* spm_tokenizer.hpp: spm_tokenize, llm_tokenizer_spm (tokenize,           *)
(* try_add_bigram, resegment), the byte-fallback helpers and               *)
(* llama_token_to_text.  Texts are sequences of bytes (0..255), ids are    *)
(* the C++ 0-based indices of id_to_token, scores are integers.            *)
(***************************************************************************)
EXTENDS Integers, Sequences, FiniteSets, TLC

VARIABLES
    vocab,       \* the llama_vocab the caller passes (const reference)
    pc,          \* position of the call: idle, called, split, seed, merge, emit, returned,
                 \* failed
    raw_text,    \* spm_tokenize parameter
    bos,         \* spm_tokenize parameter
    escape,      \* spm_tokenize parameter
    text,        \* the string handed to llm_tokenizer_spm::tokenize
    symbols,     \* llm_tokenizer_spm::symbols (index i of the vector is symbols[i + 1])
    work_queue,  \* llm_tokenizer_spm::work_queue (its storage, in no particular order)
    rev_merge,   \* llm_tokenizer_spm::rev_merge
    output,      \* the output vector of spm_tokenize
    offs,        \* tokenize: byte offset of the split loop
    index,       \* tokenize: symbol counter of the split loop
    seed_i,      \* tokenize: loop variable of the seeding loop
    bigram,      \* tokenize: the candidate popped last (NoBigram before the first pop)
    applied,     \* tokenize: whether the last pop passed the staleness check
    emit_i,      \* tokenize: loop variable of the final walk
    stack,       \* pending resegment invocations (symbol indices, innermost first)
    first,       \* history: the first call that returned (NoCall before)
    pushes,      \* history: the number of work_queue.push calls of the call
    tok_pc,      \* llama_token_to_text: none (not called), done (returned), failed
    tok_id,      \* llama_token_to_text: the parameter token of the last call
    tok_text,    \* llama_token_to_text: the string the last call returned
    other        \* a second call of spm_tokenize, suspended: what it owns (none: <<>>)

vars == <<vocab, pc, raw_text, bos, escape, text, symbols, work_queue, rev_merge,
          output, offs, index, seed_i, bigram, applied, emit_i, stack, first, pushes,
          tok_pc, tok_id, tok_text, other>>

(***************************************************************************)
(* Bounds of the model.                                                    *)
(***************************************************************************)
\* a text of the single-call specification is made of at most MaxPieces pieces,
\* or of at most MaxAsciiPieces one-byte pieces
MaxPieces == 2
MaxAsciiPieces == 4
\* a text of the repeated-call specification is made of at most MaxCallPieces pieces
MaxCallPieces == 2
\* a text of the specification with fairness is made of at most MaxFairPieces
\* one-byte pieces
MaxFairPieces == 3
\* a text of the specifications with decoding calls or with two calls at a time is
\* made of at most MaxSmallPieces pieces
MaxSmallPieces == 1

(***************************************************************************)
(* Program constants.                                                      *)
(***************************************************************************)
LLAMA_VOCAB_TYPE_SPM == 0
LLAMA_VOCAB_TYPE_BPE == 1

LLAMA_TOKEN_TYPE_UNDEFINED == 0
LLAMA_TOKEN_TYPE_NORMAL == 1
LLAMA_TOKEN_TYPE_UNKNOWN == 2
LLAMA_TOKEN_TYPE_CONTROL == 3
LLAMA_TOKEN_TYPE_USER_DEFINED == 4
LLAMA_TOKEN_TYPE_UNUSED == 5
LLAMA_TOKEN_TYPE_BYTE == 6

\* ' '
SpaceByte == 32
\* "\xe2\x96\x81", the escaped whitespace
Marker == <<226, 150, 129>>
\* "\xe2\x96\x85", the text of an unknown token
UnknownGlyph == <<226, 150, 133>>
\* size of the first buffer of llama_token_to_text
FirstBufSize == 8

(***************************************************************************)
(* Helpers.                                                                *)
(***************************************************************************)
\* mutant: the table entry of the high nibble 0xE is 2
utf8_len_short(src) ==
    LET lookup == <<1, 1, 1, 1, 1, 1, 1, 1, 1, 1, 1, 1, 2, 2, 2, 4>>
        highbits == src \div 16
    IN  lookup[highbits + 1]

\* utf8_len: the length of a code point from the high nibble of its first byte
utf8_len(src) ==
    LET lookup == <<1, 1, 1, 1, 1, 1, 1, 1, 1, 1, 1, 1, 2, 2, 3, 4>>
        highbits == src \div 16
    IN  lookup[highbits + 1]

\* one digit of printf's %X
HexDigit(d) == IF d < 10 THEN 48 + d ELSE 55 + d

\* snprintf(buf, sizeof(buf), "<0x%02X>", ch)
ByteTokenText(ch) == <<60, 48, 120, HexDigit(ch \div 16), HexDigit(ch % 16), 62>>

\* the value of one character as a base-16 digit, -1 when it is none
HexValue(c) ==
    IF c >= 48 /\ c <= 57 THEN c - 48
    ELSE IF c >= 65 /\ c <= 70 THEN c - 55
    ELSE IF c >= 97 /\ c <= 102 THEN c - 87
    ELSE -1

\* strtol(buf, NULL, 16) of a buffer of at most two characters: the leading
\* base-16 digits, 0 when there is none
StrToL16(buf) ==
    IF Len(buf) = 0 \/ HexValue(buf[1]) < 0 THEN 0
    ELSE IF Len(buf) = 1 \/ HexValue(buf[2]) < 0 THEN HexValue(buf[1])
    ELSE 16 * HexValue(buf[1]) + HexValue(buf[2])

\* std::string::find(search, pos): the first 0-based position >= pos where
\* search occurs in s, -1 (npos) when there is none
RECURSIVE StrFind(_, _, _)
StrFind(s, search, pos) ==
    IF pos + Len(search) > Len(s) THEN -1
    ELSE IF SubSeq(s, pos + 1, pos + Len(search)) = search THEN pos
    ELSE StrFind(s, search, pos + 1)

\* replace_all: the loop from position pos on, result being what is built so far
RECURSIVE ReplaceFrom(_, _, _, _, _)
ReplaceFrom(s, search, replace, pos, result) ==
    LET new_pos == StrFind(s, search, pos)
    IN  IF new_pos = -1
        THEN result \o SubSeq(s, pos + 1, Len(s))
        ELSE ReplaceFrom(s, search, replace, new_pos + Len(search),
                         result \o SubSeq(s, pos + 1, new_pos) \o replace)

replace_all(s, search, replace) == ReplaceFrom(s, search, replace, 0, <<>>)

llama_unescape_whitespace(word) == replace_all(word, Marker, <<SpaceByte>>)

\* mutant: no marker in front
get_llama_escape_whitespac_bare(t) == replace_all(t, <<SpaceByte>>, Marker)

\* get_llama_escape_whitespac: the loop from offset o on
RECURSIVE EscapeFrom(_, _, _)
EscapeFrom(t, o, result) ==
    IF o >= Len(t) THEN result
    ELSE IF t[o + 1] = SpaceByte
         THEN EscapeFrom(t, o + 1, result \o Marker)
         ELSE EscapeFrom(t, o + 1, Append(result, t[o + 1]))

get_llama_escape_whitespac(t) == EscapeFrom(t, 0, Marker)

(***************************************************************************)
(* Vocabularies (llama_vocab).  token_to_id maps a text to an id,          *)
(* id_to_token[id + 1] is the token_data of id.                            *)
(***************************************************************************)
Tok(t, score, type) == [text |-> t, score |-> score, type |-> type]

\* "<unk>", "<s>", "</s>": ids 0, 1, 2 of a LLaMA vocabulary
SpecialToks ==
    << Tok(<<60, 117, 110, 107, 62>>, 0, LLAMA_TOKEN_TYPE_UNKNOWN),
       Tok(<<60, 115, 62>>, 0, LLAMA_TOKEN_TYPE_CONTROL),
       Tok(<<60, 47, 115, 62>>, 0, LLAMA_TOKEN_TYPE_CONTROL) >>

\* the text of the byte-fallback token of byte b: "<0x", two uppercase digits, ">"
UpperHex == <<48, 49, 50, 51, 52, 53, 54, 55, 56, 57, 65, 66, 67, 68, 69, 70>>
ByteName(b) == <<60, 48, 120, UpperHex[(b \div 16) + 1], UpperHex[(b % 16) + 1], 62>>

\* the byte-fallback family "<0x00>" .. "<0xFF>"
ByteToks == [i \in 1..256 |-> Tok(ByteName(i - 1), 0, LLAMA_TOKEN_TYPE_BYTE)]

\* the family without the tokens of the bytes 0x80 .. 0xBF
PartialByteToks ==
    [i \in 1..192 |->
        Tok(ByteName(IF i <= 128 THEN i - 1 ELSE i + 63), 0, LLAMA_TOKEN_TYPE_BYTE)]

\* the token_to_id that agrees with id_to_token
TokenToId(toks) ==
    [t \in {toks[i].text : i \in DOMAIN toks} |->
        (CHOOSE i \in DOMAIN toks : toks[i].text = t) - 1]

\* a llama_vocab with the default special ids; extra overrides token_to_id
MkVocab(type, toks, extra) ==
    [type |-> type,
     token_to_id |-> extra @@ TokenToId(toks),
     id_to_token |-> toks,
     special_bos_id |-> 1,
     special_eos_id |-> 2,
     special_unk_id |-> 0,
     special_sep_id |-> -1,
     special_pad_id |-> -1,
     linefeed_id |-> 13]

NoExtra == [t \in {} |-> 0]

TA == <<97>>
TB == <<98>>
TSpace == <<SpaceByte>>
\* U+00E9, two bytes
TEacute == <<195, 169>>
\* U+1F600, four bytes
TEmoji == <<240, 159, 152, 128>>
\* a two-byte lead with nothing after it
TTrunc == <<195>>

Normal(t, score) == Tok(t, score, LLAMA_TOKEN_TYPE_NORMAL)

\* no token at all
VocabEmpty == MkVocab(LLAMA_VOCAB_TYPE_SPM, <<>>, NoExtra)
\* a byte-pair-encoding vocabulary
VocabBPE ==
    MkVocab(LLAMA_VOCAB_TYPE_BPE,
            SpecialToks \o ByteToks \o <<Normal(TA, 1), Normal(TB, 1)>>, NoExtra)
\* the byte-fallback family only
VocabBytes == MkVocab(LLAMA_VOCAB_TYPE_SPM, SpecialToks \o ByteToks, NoExtra)
\* a, b, ab and no byte-fallback family
VocabAB ==
    MkVocab(LLAMA_VOCAB_TYPE_SPM,
            SpecialToks \o <<Normal(TA, 1), Normal(TB, 1), Normal(TA \o TB, 2)>>,
            NoExtra)
\* pairs of equal score
VocabTie ==
    MkVocab(LLAMA_VOCAB_TYPE_SPM,
            SpecialToks \o ByteToks \o
            <<Normal(TA, 1), Normal(TB, 1), Normal(Marker, 1),
              Normal(TA \o TB, 2), Normal(TB \o TA, 2), Normal(TB \o TB, 2),
              Normal(TA \o TA, 2), Normal(Marker \o TA, 2), Normal(TA \o Marker, 2),
              Normal(Marker \o Marker, 2)>>,
            NoExtra)
\* composites of composites, and composites whose parts are no tokens
VocabDeep ==
    MkVocab(LLAMA_VOCAB_TYPE_SPM,
            SpecialToks \o ByteToks \o
            <<Normal(TB, 1), Normal(TA \o TB, 1), Normal(TB \o TA, 3),
              Normal(TA \o TB \o TA, 2), Normal(TB \o TA \o TB, 4),
              Normal(Marker \o TA, 1), Normal(Marker \o TA \o TB, 5),
              Normal(Marker \o Marker \o TA, 2), Normal(TEacute \o TA, 1)>>,
            NoExtra)
\* token_to_id entries whose id is no index of id_to_token
VocabBadId ==
    MkVocab(LLAMA_VOCAB_TYPE_SPM,
            SpecialToks \o ByteToks \o <<Normal(TA, 1), Normal(TB, 1)>>,
            (TA \o TB :> 999) @@ (TB \o TA :> -1) @@ (TEacute :> 999))
\* a byte-fallback family with holes
VocabPartial ==
    MkVocab(LLAMA_VOCAB_TYPE_SPM,
            SpecialToks \o PartialByteToks \o <<Normal(TA \o TB, 1)>>, NoExtra)

Vocabs == {VocabEmpty, VocabBPE, VocabBytes, VocabAB, VocabTie, VocabDeep,
           VocabBadId, VocabPartial}

\* nine bytes: one more than the first buffer of llama_token_to_text holds
LongText == TA \o TB \o TA \o TB \o TA \o TB \o TA \o TB \o TA
\* tokens of every type; normal tokens with markers, and longer than 8 bytes
\* before or after the markers are replaced
TypedToks ==
    << Normal(TA, 1), Normal(Marker \o TA, 1),
       Normal(TA \o Marker \o Marker \o TB, 1),
       Normal(LongText, 1), Normal(Marker \o LongText, 1),
       Normal(Marker \o TA \o Marker \o TB \o Marker, 1),
       Tok(<<117>>, 0, LLAMA_TOKEN_TYPE_UNDEFINED),
       Tok(<<118>>, 0, LLAMA_TOKEN_TYPE_USER_DEFINED),
       Tok(<<119>>, 0, LLAMA_TOKEN_TYPE_UNUSED) >>
VocabTypes ==
    MkVocab(LLAMA_VOCAB_TYPE_SPM, SpecialToks \o ByteToks \o TypedToks, NoExtra)
VocabTypesBPE ==
    MkVocab(LLAMA_VOCAB_TYPE_BPE, SpecialToks \o ByteToks \o TypedToks, NoExtra)

\* the vocabularies llama_token_to_text is called with
DecodeVocabs == Vocabs \cup {VocabTypes, VocabTypesBPE}

(***************************************************************************)
(* Input texts: concatenations of a few pieces.                            *)
(***************************************************************************)
Pieces == {TA, TB, TSpace, TEacute, Marker, TEmoji, TTrunc}
AsciiPieces == {TA, TB, TSpace}
CallPieces == {TA, TSpace}

RECURSIVE AllTexts(_, _)
AllTexts(pieces, n) ==
    IF n = 0 THEN {<<>>}
    ELSE LET S == AllTexts(pieces, n - 1)
         IN  S \cup {s \o p : s \in S, p \in pieces}

\* texts of the single-call specification
Texts == AllTexts(Pieces, MaxPieces) \cup AllTexts(AsciiPieces, MaxAsciiPieces)
\* texts of the repeated-call specification
CallTexts == AllTexts(CallPieces, MaxCallPieces)
\* texts of the specification with fairness
FairTexts == AllTexts(AsciiPieces, MaxFairPieces)
\* texts of the specifications with decoding calls or with two calls at a time
SmallTexts == AllTexts(CallPieces, MaxSmallPieces)

(***************************************************************************)
(* llm_symbol, llm_bigram_spm and the operations of llm_tokenizer_spm.     *)
(***************************************************************************)
\* llm_symbol; text is the offset of the symbol's first byte in the string
llm_symbol(prev, next, off, n) == [prev |-> prev, next |-> next, text |-> off, n |-> n]

llm_bigram_spm(left, right, score, size) ==
    [left |-> left, right |-> right, score |-> score, size |-> size]

NoBigram == llm_bigram_spm(-1, -1, 0, 0)

\* std::string(ptr, n) for the pointer at offset off of the tokenized string
StringAt(str, off, n) == SubSeq(str, off + 1, off + n)

\* the text a symbol covers
SymbolText(str, sym) == StringAt(str, sym.text, sym.n)

\* mutant: the larger left index first
comparator_right_first(l, r) ==
    (l.score < r.score) \/ (l.score = r.score /\ l.left < r.left)

\* mutant: the lower score first
comparator_low_first(l, r) ==
    (l.score > r.score) \/ (l.score = r.score /\ l.left > r.left)

\* llm_bigram_spm::comparator: whether l comes after r in the queue
comparator(l, r) ==
    (l.score < r.score) \/ (l.score = r.score /\ l.left > r.left)

\* the positions work_queue.top() can return: no other element is ordered before them
TopIndices(q) ==
    {k \in DOMAIN q : \A j \in DOMAIN q : ~comparator(q[k], q[j])}

\* mutant: top() without pop(): the candidate stays in the queue
RemoveAt_keep(q, k) == q

\* work_queue.pop() of the element at position k of the storage
RemoveAt(q, k) == SubSeq(q, 1, k - 1) \o SubSeq(q, k + 1, Len(q))

\* static_cast<size_t>(id) >= size: a negative id becomes a huge size_t
SizeTGeq(id, size) == id < 0 \/ id >= size

\* mutant: one tokenizer kept from call to call
NewTokenizer_reused ==
    [symbols |-> symbols, work_queue |-> work_queue, rev_merge |-> rev_merge]

\* a freshly constructed llm_tokenizer_spm
NewTokenizer == [symbols |-> <<>>, work_queue |-> <<>>, rev_merge |-> <<>>]

\* mutant: token_to_id[text] in place of find: a text without entry gets one
AfterFind_inserts(v, t) ==
    IF t \in DOMAIN v.token_to_id THEN v
    ELSE [v EXCEPT !.token_to_id = (t :> 0) @@ @]

\* the vocabulary after vocab.token_to_id.find(t): find on the const map
\* inserts nothing
AfterFind(v, t) == v

\* the vocabulary after try_add_bigram(left, right)
VocabAfterTry(v, str, tk, left, right) ==
    IF left = -1 \/ right = -1 THEN v
    ELSE AfterFind(v, StringAt(str, tk.symbols[left + 1].text,
                               tk.symbols[left + 1].n + tk.symbols[right + 1].n))

\* mutant: the merge history is written for every pair tried
try_add_bigram_history_always(v, str, tk, left, right) ==
    IF left = -1 \/ right = -1 THEN tk
    ELSE LET t == StringAt(str, tk.symbols[left + 1].text,
                           tk.symbols[left + 1].n + tk.symbols[right + 1].n)
             th == [tk EXCEPT !.rev_merge = (t :> <<left, right>>) @@ @]
         IN  IF t \notin DOMAIN v.token_to_id THEN th
             ELSE IF SizeTGeq(v.token_to_id[t], Len(v.id_to_token)) THEN th
             ELSE LET tok_data == v.id_to_token[v.token_to_id[t] + 1]
                      bg == llm_bigram_spm(left, right, tok_data.score, Len(t))
                  IN  [th EXCEPT !.work_queue = Append(@, bg)]

\* mutant: the text looked up is that of the left symbol alone
try_add_bigram_left_text(v, str, tk, left, right) ==
    IF left = -1 \/ right = -1 THEN tk
    ELSE LET t == StringAt(str, tk.symbols[left + 1].text, tk.symbols[left + 1].n)
         IN  IF t \notin DOMAIN v.token_to_id THEN tk
             ELSE IF SizeTGeq(v.token_to_id[t], Len(v.id_to_token)) THEN tk
             ELSE LET tok_data == v.id_to_token[v.token_to_id[t] + 1]
                      bg == llm_bigram_spm(left, right, tok_data.score,
                                           tk.symbols[left + 1].n + tk.symbols[right + 1].n)
                  IN  [tk EXCEPT !.work_queue = Append(@, bg),
                                 !.rev_merge = (t :> <<left, right>>) @@ @]

\* mutant: the merge history is written before the id is checked
try_add_bigram_history_early(v, str, tk, left, right) ==
    IF left = -1 \/ right = -1 THEN tk
    ELSE LET t == StringAt(str, tk.symbols[left + 1].text,
                           tk.symbols[left + 1].n + tk.symbols[right + 1].n)
         IN  IF t \notin DOMAIN v.token_to_id THEN tk
             ELSE IF SizeTGeq(v.token_to_id[t], Len(v.id_to_token))
             THEN [tk EXCEPT !.rev_merge = (t :> <<left, right>>) @@ @]
             ELSE LET tok_data == v.id_to_token[v.token_to_id[t] + 1]
                      bg == llm_bigram_spm(left, right, tok_data.score, Len(t))
                  IN  [tk EXCEPT !.work_queue = Append(@, bg),
                                 !.rev_merge = (t :> <<left, right>>) @@ @]

\* mutant: no check of the id against the size of id_to_token; the score read
\* outside the vector is taken as 0
try_add_bigram_unchecked_id(v, str, tk, left, right) ==
    IF left = -1 \/ right = -1 THEN tk
    ELSE LET t == StringAt(str, tk.symbols[left + 1].text,
                           tk.symbols[left + 1].n + tk.symbols[right + 1].n)
         IN  IF t \notin DOMAIN v.token_to_id THEN tk
             ELSE LET sc == IF SizeTGeq(v.token_to_id[t], Len(v.id_to_token)) THEN 0
                            ELSE v.id_to_token[v.token_to_id[t] + 1].score
                      bg == llm_bigram_spm(left, right, sc, Len(t))
                  IN  [tk EXCEPT !.work_queue = Append(@, bg),
                                 !.rev_merge = (t :> <<left, right>>) @@ @]

\* mutant: the candidate records the length of the left span as its size
try_add_bigram_left_size(v, str, tk, left, right) ==
    IF left = -1 \/ right = -1 THEN tk
    ELSE LET t == StringAt(str, tk.symbols[left + 1].text,
                           tk.symbols[left + 1].n + tk.symbols[right + 1].n)
         IN  IF t \notin DOMAIN v.token_to_id THEN tk
             ELSE IF SizeTGeq(v.token_to_id[t], Len(v.id_to_token)) THEN tk
             ELSE LET tok_data == v.id_to_token[v.token_to_id[t] + 1]
                      bg == llm_bigram_spm(left, right, tok_data.score,
                                           tk.symbols[left + 1].n)
                  IN  [tk EXCEPT !.work_queue = Append(@, bg),
                                 !.rev_merge = (t :> <<left, right>>) @@ @]

\* mutant: a candidate of score 0 for a text that is no token
try_add_bigram_absent(v, str, tk, left, right) ==
    IF left = -1 \/ right = -1 THEN tk
    ELSE LET t == StringAt(str, tk.symbols[left + 1].text,
                           tk.symbols[left + 1].n + tk.symbols[right + 1].n)
             sc == IF t \in DOMAIN v.token_to_id
                      /\ ~SizeTGeq(v.token_to_id[t], Len(v.id_to_token))
                   THEN v.id_to_token[v.token_to_id[t] + 1].score
                   ELSE 0
         IN  [tk EXCEPT !.work_queue = Append(@, llm_bigram_spm(left, right, sc, Len(t))),
                        !.rev_merge = (t :> <<left, right>>) @@ @]

\* mutant: the entry of the merge history is kept when the text has one
try_add_bigram_keep_first(v, str, tk, left, right) ==
    IF left = -1 \/ right = -1 THEN tk
    ELSE LET t == StringAt(str, tk.symbols[left + 1].text,
                           tk.symbols[left + 1].n + tk.symbols[right + 1].n)
         IN  IF t \notin DOMAIN v.token_to_id THEN tk
             ELSE IF SizeTGeq(v.token_to_id[t], Len(v.id_to_token)) THEN tk
             ELSE LET tok_data == v.id_to_token[v.token_to_id[t] + 1]
                      bg == llm_bigram_spm(left, right, tok_data.score, Len(t))
                  IN  [tk EXCEPT !.work_queue = Append(@, bg),
                                 !.rev_merge = @ @@ (t :> <<left, right>>)]

\* try_add_bigram on the tokenizer state tk (symbols, work_queue, rev_merge)
try_add_bigram(v, str, tk, left, right) ==
    IF left = -1 \/ right = -1 THEN tk
    ELSE LET t == StringAt(str, tk.symbols[left + 1].text,
                           tk.symbols[left + 1].n + tk.symbols[right + 1].n)
         IN  IF t \notin DOMAIN v.token_to_id THEN tk
             ELSE IF SizeTGeq(v.token_to_id[t], Len(v.id_to_token)) THEN tk
             ELSE LET tok_data == v.id_to_token[v.token_to_id[t] + 1]
                      bg == llm_bigram_spm(left, right, tok_data.score, Len(t))
                  IN  [tk EXCEPT !.work_queue = Append(@, bg),
                                 !.rev_merge = (t :> <<left, right>>) @@ @]

\* mutant: the candidates whose size matches are the ones skipped
IsSkipped_eq(syms, bg) ==
    \/ syms[bg.left + 1].n = 0
    \/ syms[bg.right + 1].n = 0
    \/ syms[bg.left + 1].n + syms[bg.right + 1].n = bg.size

\* mutant: the size of the candidate is not compared
IsSkipped_no_size(syms, bg) ==
    \/ syms[bg.left + 1].n = 0
    \/ syms[bg.right + 1].n = 0

\* the check of a popped candidate: whether it is skipped
IsSkipped(syms, bg) ==
    \/ syms[bg.left + 1].n = 0
    \/ syms[bg.right + 1].n = 0
    \/ syms[bg.left + 1].n + syms[bg.right + 1].n # bg.size

\* mutant: the right symbol stays in the chain
MergeSymbols_no_unlink(syms, bg) ==
    [syms EXCEPT ![bg.left + 1].n = syms[bg.left + 1].n + syms[bg.right + 1].n,
                 ![bg.right + 1].n = 0]

\* mutant: the prev of the symbol after the right one is set to the right one
MergeSymbols_prev_right(syms, bg) ==
    LET left_sym == syms[bg.left + 1]
        right_sym == syms[bg.right + 1]
        s1 == [syms EXCEPT ![bg.left + 1].n = left_sym.n + right_sym.n,
                           ![bg.right + 1].n = 0,
                           ![bg.left + 1].next = right_sym.next]
    IN  IF right_sym.next >= 0
        THEN [s1 EXCEPT ![right_sym.next + 1].prev = bg.right]
        ELSE s1

\* mutant: the prev of the symbol after the right one is left as it is
MergeSymbols_no_prev(syms, bg) ==
    [syms EXCEPT ![bg.left + 1].n = syms[bg.left + 1].n + syms[bg.right + 1].n,
                 ![bg.right + 1].n = 0,
                 ![bg.left + 1].next = syms[bg.right + 1].next]

\* merge the right symbol into the left one and remove it from the chain
MergeSymbols(syms, bg) ==
    LET left_sym == syms[bg.left + 1]
        right_sym == syms[bg.right + 1]
        s1 == [syms EXCEPT ![bg.left + 1].n = left_sym.n + right_sym.n,
                           ![bg.right + 1].n = 0,
                           ![bg.left + 1].next = right_sym.next]
    IN  IF right_sym.next >= 0
        THEN [s1 EXCEPT ![right_sym.next + 1].prev = bg.left]
        ELSE s1

\* mutant: the unknown token for a byte without token
llama_byte_to_token_unk(v, ch) ==
    IF ByteTokenText(ch) \in DOMAIN v.token_to_id
    THEN [ok |-> TRUE, id |-> v.token_to_id[ByteTokenText(ch)]]
    ELSE [ok |-> TRUE, id |-> v.special_unk_id]

\* llama_byte_to_token: token_to_id.at(buf) throws when the token is absent
llama_byte_to_token(v, ch) ==
    LET buf == ByteTokenText(ch)
    IN  IF buf \in DOMAIN v.token_to_id
        THEN [ok |-> TRUE, id |-> v.token_to_id[buf]]
        ELSE [ok |-> FALSE, id |-> 0]

\* the byte loop of resegment from byte j on; ok is FALSE when a byte threw
RECURSIVE ByteLoop(_, _, _, _, _)
ByteLoop(v, str, sym, j, out) ==
    IF j >= sym.n THEN [ok |-> TRUE, output |-> out]
    ELSE LET r == llama_byte_to_token(v, str[sym.text + j + 1])
         IN  IF r.ok THEN ByteLoop(v, str, sym, j + 1, Append(out, r.id))
             ELSE [ok |-> FALSE, output |-> out]

\* mutant: a text that is no token emits nothing
resegment_no_fallback(v, str, syms, rm, s, out, rest) ==
    LET t == SymbolText(str, syms[s + 1])
    IN  IF t \in DOMAIN v.token_to_id
        THEN [ok |-> TRUE, output |-> Append(out, v.token_to_id[t]), stack |-> rest]
        ELSE [ok |-> TRUE, output |-> out, stack |-> rest]

\* mutant: the merge history is looked up before the vocabulary
resegment_history_first(v, str, syms, rm, s, out, rest) ==
    LET t == SymbolText(str, syms[s + 1])
    IN  IF t \in DOMAIN rm
        THEN [ok |-> TRUE, output |-> out, stack |-> <<rm[t][1], rm[t][2]>> \o rest]
        ELSE IF t \in DOMAIN v.token_to_id
        THEN [ok |-> TRUE, output |-> Append(out, v.token_to_id[t]), stack |-> rest]
        ELSE LET r == ByteLoop(v, str, syms[s + 1], 0, out)
             IN  [ok |-> r.ok, output |-> r.output, stack |-> rest]

\* one invocation of resegment on symbol s, with the invocations still to run in
\* rest: the output, the invocations to run next, and whether it threw
resegment(v, str, syms, rm, s, out, rest) ==
    LET t == SymbolText(str, syms[s + 1])
    IN  IF t \in DOMAIN v.token_to_id
        THEN [ok |-> TRUE, output |-> Append(out, v.token_to_id[t]), stack |-> rest]
        ELSE IF t \notin DOMAIN rm
        THEN LET r == ByteLoop(v, str, syms[s + 1], 0, out)
             IN  [ok |-> r.ok, output |-> r.output, stack |-> rest]
        ELSE [ok |-> TRUE, output |-> out, stack |-> <<rm[t][1], rm[t][2]>> \o rest]

(***************************************************************************)
(* id -> text.                                                             *)
(***************************************************************************)
\* mutant: the digits taken one character too early
llama_token_to_byte_offset2(v, id) ==
    LET txt == v.id_to_token[id + 1].text
    IN  [ok |-> TRUE, byte |-> StrToL16(SubSeq(txt, 3, 4)) % 256]

\* mutant: no assertion on the type of the token
llama_token_to_byte_any_type(v, id) ==
    LET txt == v.id_to_token[id + 1].text
    IN  IF Len(txt) < 3 THEN [ok |-> FALSE, byte |-> 0]
        ELSE LET buf == SubSeq(txt, 4, IF Len(txt) < 5 THEN Len(txt) ELSE 5)
             IN  [ok |-> TRUE, byte |-> StrToL16(buf) % 256]

\* llama_token_to_byte: the assertion fails for an id whose type is not byte,
\* and substr(3, 2) throws when the stored text has fewer than 3 characters
llama_token_to_byte(v, id) ==
    LET txt == v.id_to_token[id + 1].text
    IN  IF v.id_to_token[id + 1].type # LLAMA_TOKEN_TYPE_BYTE
        THEN [ok |-> FALSE, byte |-> 0]
        ELSE IF Len(txt) < 3 THEN [ok |-> FALSE, byte |-> 0]
        ELSE LET buf == SubSeq(txt, 4, IF Len(txt) < 5 THEN Len(txt) ELSE 5)
             IN  [ok |-> TRUE, byte |-> StrToL16(buf) % 256]

\* mutant: a text longer than the buffer is cut to the buffer
llama_token_to_str_truncates(v, token, length) ==
    LET data == v.id_to_token[token + 1]
    IN  IF data.type = LLAMA_TOKEN_TYPE_NORMAL
        THEN LET result == IF v.type = LLAMA_VOCAB_TYPE_SPM
                           THEN llama_unescape_whitespace(data.text)
                           ELSE data.text
             IN  IF length < Len(result)
                 THEN [ok |-> TRUE, ret |-> length, buf |-> SubSeq(result, 1, length)]
                 ELSE [ok |-> TRUE, ret |-> Len(result), buf |-> result]
        ELSE IF data.type = LLAMA_TOKEN_TYPE_UNKNOWN
        THEN IF length < 3
             THEN [ok |-> TRUE, ret |-> -3, buf |-> <<>>]
             ELSE [ok |-> TRUE, ret |-> 3, buf |-> UnknownGlyph]
        ELSE IF data.type = LLAMA_TOKEN_TYPE_CONTROL
        THEN [ok |-> TRUE, ret |-> 0, buf |-> <<>>]
        ELSE IF data.type = LLAMA_TOKEN_TYPE_BYTE
        THEN IF length < 1
             THEN [ok |-> TRUE, ret |-> -1, buf |-> <<>>]
             ELSE LET r == llama_token_to_byte(v, token)
                  IN  [ok |-> r.ok, ret |-> 1, buf |-> <<r.byte>>]
        ELSE [ok |-> TRUE, ret |-> 0, buf |-> <<>>]

\* mutant: the markers are replaced whatever the type of the vocabulary
llama_token_to_str_any_type(v, token, length) ==
    LET data == v.id_to_token[token + 1]
    IN  IF data.type = LLAMA_TOKEN_TYPE_NORMAL
        THEN LET result == llama_unescape_whitespace(data.text)
             IN  IF length < Len(result)
                 THEN [ok |-> TRUE, ret |-> -Len(result), buf |-> <<>>]
                 ELSE [ok |-> TRUE, ret |-> Len(result), buf |-> result]
        ELSE IF data.type = LLAMA_TOKEN_TYPE_UNKNOWN
        THEN IF length < 3
             THEN [ok |-> TRUE, ret |-> -3, buf |-> <<>>]
             ELSE [ok |-> TRUE, ret |-> 3, buf |-> UnknownGlyph]
        ELSE IF data.type = LLAMA_TOKEN_TYPE_CONTROL
        THEN [ok |-> TRUE, ret |-> 0, buf |-> <<>>]
        ELSE IF data.type = LLAMA_TOKEN_TYPE_BYTE
        THEN IF length < 1
             THEN [ok |-> TRUE, ret |-> -1, buf |-> <<>>]
             ELSE LET r == llama_token_to_byte(v, token)
                  IN  [ok |-> r.ok, ret |-> 1, buf |-> <<r.byte>>]
        ELSE [ok |-> TRUE, ret |-> 0, buf |-> <<>>]

\* llama_token_to_str with a buffer of length bytes: the value returned and
\* the bytes written to the start of the buffer
llama_token_to_str(v, token, length) ==
    LET data == v.id_to_token[token + 1]
    IN  IF data.type = LLAMA_TOKEN_TYPE_NORMAL
        THEN LET result == IF v.type = LLAMA_VOCAB_TYPE_SPM
                           THEN llama_unescape_whitespace(data.text)
                           ELSE data.text
             IN  IF length < Len(result)
                 THEN [ok |-> TRUE, ret |-> -Len(result), buf |-> <<>>]
                 ELSE [ok |-> TRUE, ret |-> Len(result), buf |-> result]
        ELSE IF data.type = LLAMA_TOKEN_TYPE_UNKNOWN
        THEN IF length < 3
             THEN [ok |-> TRUE, ret |-> -3, buf |-> <<>>]
             ELSE [ok |-> TRUE, ret |-> 3, buf |-> UnknownGlyph]
        ELSE IF data.type = LLAMA_TOKEN_TYPE_CONTROL
        THEN [ok |-> TRUE, ret |-> 0, buf |-> <<>>]
        ELSE IF data.type = LLAMA_TOKEN_TYPE_BYTE
        THEN IF length < 1
             THEN [ok |-> TRUE, ret |-> -1, buf |-> <<>>]
             ELSE LET r == llama_token_to_byte(v, token)
                  IN  [ok |-> r.ok, ret |-> 1, buf |-> <<r.byte>>]
        ELSE [ok |-> TRUE, ret |-> 0, buf |-> <<>>]

\* a vector of n zero bytes whose first bytes are overwritten by buf
Written(n, buf) == [k \in 1..n |-> IF k <= Len(buf) THEN buf[k] ELSE 0]

\* llama_token_to_text: ok is FALSE when a call threw or the assertion failed
llama_token_to_text(v, token) ==
    LET r1 == llama_token_to_str(v, token, FirstBufSize)
    IN  IF ~r1.ok THEN [ok |-> FALSE, text |-> <<>>]
        ELSE IF r1.ret < 0
        THEN LET r2 == llama_token_to_str(v, token, -r1.ret)
             IN  IF r2.ok /\ r2.ret = -r1.ret
                 THEN [ok |-> TRUE, text |-> Written(-r1.ret, r2.buf)]
                 ELSE [ok |-> FALSE, text |-> <<>>]
        ELSE [ok |-> TRUE, text |-> SubSeq(Written(FirstBufSize, r1.buf), 1, r1.ret)]

(***************************************************************************)
(* The state machine: one call of spm_tokenize, step by step.              *)
(***************************************************************************)
\* the history kept of a call that returned
CallRecord(t, b, e, out) == [raw_text |-> t, bos |-> b, escape |-> e, output |-> out]

\* first, as the caller knows it when it makes its next call
Remember ==
    IF first = <<>> /\ pc = "returned"
    THEN <<CallRecord(raw_text, bos, escape, output)>>
    ELSE first

TypeOK ==
    /\ vocab \in DecodeVocabs
    /\ pc \in {"idle", "called", "split", "seed", "merge", "emit", "returned", "failed"}
    /\ bos \in BOOLEAN /\ escape \in BOOLEAN /\ applied \in BOOLEAN
    /\ offs \in Nat /\ index \in Nat /\ seed_i \in Nat /\ emit_i \in Int
    /\ Len(first) <= 1

\* nothing has been called
Idle ==
    /\ pc = "idle"
    /\ raw_text = <<>> /\ bos = FALSE /\ escape = FALSE
    /\ text = <<>>
    /\ symbols = <<>> /\ work_queue = <<>> /\ rev_merge = <<>>
    /\ output = <<>>
    /\ offs = 0 /\ index = 0 /\ seed_i = 0
    /\ bigram = NoBigram /\ applied = FALSE
    /\ emit_i = 0 /\ stack = <<>>
    /\ first = <<>>
    /\ pushes = 0
    /\ tok_pc = "none" /\ tok_id = 0 /\ tok_text = <<>>
    /\ other = <<>>

Init == vocab \in Vocabs /\ Idle

\* mutant: the EOS id pushed in place of the BOS id
BosPrefix_eos(v, b) == IF b THEN <<v.special_eos_id>> ELSE <<>>

\* mutant: no early return
EarlyReturn_never(t) == FALSE

\* mutant: no assertion
SplitFits_always(o, len, size) == TRUE

\* spm_tokenize: the test that returns the empty output at once
EarlyReturn(t) == t = <<>>

\* spm_tokenize: what output holds when tokenizer.tokenize is called
BosPrefix(v, b) == IF b THEN <<v.special_bos_id>> ELSE <<>>

\* tokenize: the assertion of the split loop
SplitFits(o, len, size) == o + len <= size

\* mutant: the SentencePiece tokenizer for a vocabulary of any type
spm_tokenize_any_type(t, b, e) ==
    /\ raw_text' = t /\ bos' = b /\ escape' = e
    /\ offs' = 0 /\ index' = 0 /\ seed_i' = 0
    /\ bigram' = NoBigram /\ applied' = FALSE
    /\ emit_i' = 0 /\ stack' = <<>>
    /\ first' = Remember
    /\ pushes' = 0
    /\ UNCHANGED <<vocab, tok_pc, tok_id, tok_text>>
    /\ IF EarlyReturn(t)
       THEN /\ pc' = "returned"
            /\ output' = <<>>
            /\ text' = <<>>
            /\ symbols' = <<>> /\ work_queue' = <<>> /\ rev_merge' = <<>>
       ELSE /\ pc' = "split"
            /\ symbols' = NewTokenizer.symbols
            /\ work_queue' = NewTokenizer.work_queue
            /\ rev_merge' = NewTokenizer.rev_merge
            /\ output' = BosPrefix(vocab, b)
            /\ text' = IF e THEN get_llama_escape_whitespac(t) ELSE t

\* spm_tokenize(vocab, t, b, e) up to its call of tokenizer.tokenize
spm_tokenize(t, b, e) ==
    /\ raw_text' = t /\ bos' = b /\ escape' = e
    /\ offs' = 0 /\ index' = 0 /\ seed_i' = 0
    /\ bigram' = NoBigram /\ applied' = FALSE
    /\ emit_i' = 0 /\ stack' = <<>>
    /\ first' = Remember
    /\ pushes' = 0
    /\ UNCHANGED <<vocab, tok_pc, tok_id, tok_text>>
    /\ IF EarlyReturn(t)
       THEN /\ pc' = "returned"
            /\ output' = <<>>
            /\ text' = <<>>
            /\ symbols' = <<>> /\ work_queue' = <<>> /\ rev_merge' = <<>>
       ELSE IF vocab.type = LLAMA_VOCAB_TYPE_SPM
       THEN /\ pc' = "split"
            /\ symbols' = NewTokenizer.symbols
            /\ work_queue' = NewTokenizer.work_queue
            /\ rev_merge' = NewTokenizer.rev_merge
            /\ output' = BosPrefix(vocab, b)
            /\ text' = IF e THEN get_llama_escape_whitespac(t) ELSE t
       ELSE /\ pc' = "failed"
            /\ output' = <<>>
            /\ text' = <<>>
            /\ symbols' = <<>> /\ work_queue' = <<>> /\ rev_merge' = <<>>

\* the caller's single call
Call ==
    /\ pc = "idle"
    /\ \E t \in Texts, b \in BOOLEAN, e \in BOOLEAN : spm_tokenize(t, b, e)
    /\ UNCHANGED other

\* tokenize: one iteration of the loop that splits the string into utf8 chars
Split ==
    /\ pc = "split"
    /\ offs < Len(text)
    /\ LET len == utf8_len(text[offs + 1])
       IN  IF SplitFits(offs, len, Len(text))
           THEN /\ symbols' = Append(symbols,
                        llm_symbol(index - 1,
                                   IF offs + len = Len(text) THEN -1 ELSE index + 1,
                                   offs, len))
                /\ offs' = offs + len
                /\ index' = index + 1
                /\ pc' = "split"
           ELSE /\ pc' = "failed"
                /\ UNCHANGED <<symbols, offs, index>>
    /\ UNCHANGED <<vocab, raw_text, bos, escape, text, work_queue, rev_merge, output,
                   seed_i, bigram, applied, emit_i, stack, first, pushes,
                   tok_pc, tok_id, tok_text, other>>

\* tokenize: the split loop ends, the seeding loop starts at i = 1
SplitDone ==
    /\ pc = "split"
    /\ offs >= Len(text)
    /\ pc' = "seed"
    /\ seed_i' = 1
    /\ UNCHANGED <<vocab, raw_text, bos, escape, text, symbols, work_queue, rev_merge,
                   output, offs, index, bigram, applied, emit_i, stack, first, pushes,
                   tok_pc, tok_id, tok_text, other>>

\* tokenize: one iteration of the seeding loop
Seed ==
    /\ pc = "seed"
    /\ seed_i < Len(symbols)
    /\ LET tk0 == [symbols |-> symbols, work_queue |-> work_queue,
                   rev_merge |-> rev_merge]
           tk == try_add_bigram(vocab, text, tk0, seed_i - 1, seed_i)
       IN  /\ work_queue' = tk.work_queue
           /\ rev_merge' = tk.rev_merge
           /\ pushes' = pushes + (Len(tk.work_queue) - Len(work_queue))
           /\ vocab' = VocabAfterTry(vocab, text, tk0, seed_i - 1, seed_i)
    /\ seed_i' = seed_i + 1
    /\ UNCHANGED <<pc, raw_text, bos, escape, text, symbols, output, offs, index,
                   bigram, applied, emit_i, stack, first,
                   tok_pc, tok_id, tok_text, other>>

\* tokenize: the seeding loop ends
SeedDone ==
    /\ pc = "seed"
    /\ seed_i >= Len(symbols)
    /\ pc' = "merge"
    /\ UNCHANGED <<vocab, raw_text, bos, escape, text, symbols, work_queue, rev_merge,
                   output, offs, index, seed_i, bigram, applied, emit_i, stack, first, pushes,
                   tok_pc, tok_id, tok_text, other>>

\* mutant: after a merge only the pair to the right is tried
MergeStep_right_only ==
    /\ pc = "merge"
    /\ work_queue # <<>>
    /\ \E k \in TopIndices(work_queue) :
         LET bg == work_queue[k]
             q == RemoveAt(work_queue, k)
         IN  /\ bigram' = bg
             /\ IF IsSkipped(symbols, bg)
                THEN /\ applied' = FALSE
                     /\ work_queue' = q
                     /\ UNCHANGED <<vocab, symbols, rev_merge, pushes>>
                ELSE LET syms == MergeSymbols(symbols, bg)
                         tk0 == [symbols |-> syms, work_queue |-> q,
                                 rev_merge |-> rev_merge]
                         tk2 == try_add_bigram(vocab, text, tk0,
                                               bg.left, syms[bg.left + 1].next)
                     IN  /\ applied' = TRUE
                         /\ symbols' = syms
                         /\ work_queue' = tk2.work_queue
                         /\ rev_merge' = tk2.rev_merge
                         /\ pushes' = pushes + (Len(tk2.work_queue) - Len(q))
                         /\ vocab' = VocabAfterTry(vocab, text, tk0, bg.left,
                                                   syms[bg.left + 1].next)
    /\ UNCHANGED <<pc, raw_text, bos, escape, text, output, offs, index, seed_i,
                   emit_i, stack, first, tok_pc, tok_id, tok_text, other>>

\* tokenize: one iteration of the merge loop: pop, check, merge, find more
MergeStep ==
    /\ pc = "merge"
    /\ work_queue # <<>>
    /\ \E k \in TopIndices(work_queue) :
         LET bg == work_queue[k]
             q == RemoveAt(work_queue, k)
         IN  /\ bigram' = bg
             /\ IF IsSkipped(symbols, bg)
                THEN /\ applied' = FALSE
                     /\ work_queue' = q
                     /\ UNCHANGED <<vocab, symbols, rev_merge, pushes>>
                ELSE LET syms == MergeSymbols(symbols, bg)
                         tk0 == [symbols |-> syms, work_queue |-> q,
                                 rev_merge |-> rev_merge]
                         tk1 == try_add_bigram(vocab, text, tk0,
                                               syms[bg.left + 1].prev, bg.left)
                         tk2 == try_add_bigram(vocab, text, tk1,
                                               bg.left, syms[bg.left + 1].next)
                     IN  /\ applied' = TRUE
                         /\ symbols' = syms
                         /\ work_queue' = tk2.work_queue
                         /\ rev_merge' = tk2.rev_merge
                         /\ pushes' = pushes + (Len(tk2.work_queue) - Len(q))
                         /\ vocab' = VocabAfterTry(
                                         VocabAfterTry(vocab, text, tk0,
                                                       syms[bg.left + 1].prev, bg.left),
                                         text, tk1, bg.left, syms[bg.left + 1].next)
    /\ UNCHANGED <<pc, raw_text, bos, escape, text, output, offs, index, seed_i,
                   emit_i, stack, first, tok_pc, tok_id, tok_text, other>>

\* tokenize: the work queue is empty, the final walk starts at symbol 0
MergeDone ==
    /\ pc = "merge"
    /\ work_queue = <<>>
    /\ pc' = "emit"
    /\ emit_i' = 0
    /\ UNCHANGED <<vocab, raw_text, bos, escape, text, symbols, work_queue, rev_merge,
                   output, offs, index, seed_i, bigram, applied, stack, first, pushes,
                   tok_pc, tok_id, tok_text, other>>

\* tokenize: one invocation of resegment: a pending recursive one if there is
\* any, else that of the next symbol of the final walk
Emit ==
    /\ pc = "emit"
    /\ stack # <<>> \/ emit_i # -1
    /\ LET s == IF stack # <<>> THEN Head(stack) ELSE emit_i
           r == resegment(vocab, text, symbols, rev_merge, s, output,
                          IF stack # <<>> THEN Tail(stack) ELSE <<>>)
       IN  /\ output' = r.output
           /\ vocab' = AfterFind(vocab, SymbolText(text, symbols[s + 1]))
           /\ stack' = r.stack
           /\ pc' = IF r.ok THEN "emit" ELSE "failed"
           /\ emit_i' = IF stack = <<>> /\ r.ok THEN symbols[emit_i + 1].next ELSE emit_i
    /\ UNCHANGED <<raw_text, bos, escape, text, symbols, work_queue, rev_merge,
                   offs, index, seed_i, bigram, applied, first, pushes,
                   tok_pc, tok_id, tok_text, other>>

\* tokenize returns, and spm_tokenize returns output
Return ==
    /\ pc = "emit"
    /\ stack = <<>> /\ emit_i = -1
    /\ pc' = "returned"
    /\ UNCHANGED <<vocab, raw_text, bos, escape, text, symbols, work_queue, rev_merge,
                   output, offs, index, seed_i, bigram, applied, emit_i, stack, first, pushes,
                   tok_pc, tok_id, tok_text, other>>

Next ==
    \/ Call
    \/ Split
    \/ SplitDone
    \/ Seed
    \/ SeedDone
    \/ MergeStep
    \/ MergeDone
    \/ Emit
    \/ Return

Spec == Init /\ [][Next]_vars

(***************************************************************************)
(* A caller that calls spm_tokenize again and again with one vocabulary.   *)
(***************************************************************************)
CallAgain ==
    /\ pc \in {"idle", "returned"}
    /\ \E t \in CallTexts, b \in BOOLEAN, e \in BOOLEAN : spm_tokenize(t, b, e)
    /\ UNCHANGED other

NextCalls ==
    \/ CallAgain
    \/ Split
    \/ SplitDone
    \/ Seed
    \/ SeedDone
    \/ MergeStep
    \/ MergeDone
    \/ Emit
    \/ Return

SpecCalls == Init /\ [][NextCalls]_vars

(***************************************************************************)
(* The single call, run to its end: spm_tokenize is straight-line code in  *)
(* one thread, so a step that can be taken is taken.                       *)
(***************************************************************************)
FairCall ==
    /\ pc = "idle"
    /\ \E t \in FairTexts, b \in BOOLEAN, e \in BOOLEAN : spm_tokenize(t, b, e)
    /\ UNCHANGED other

NextFair ==
    \/ FairCall
    \/ Split
    \/ SplitDone
    \/ Seed
    \/ SeedDone
    \/ MergeStep
    \/ MergeDone
    \/ Emit
    \/ Return

FairSpec == Init /\ [][NextFair]_vars /\ WF_vars(NextFair)

(***************************************************************************)
(* A caller of llama_token_to_text (the generation loop of gpt2-main.cpp   *)
(* prints every token with it).                                            *)
(***************************************************************************)
\* token is an index of v.id_to_token
InVocab(v, token) == token >= 0 /\ token < Len(v.id_to_token)

\* ids that are no index of v.id_to_token
OutsideIds(v) == {-2, -1, Len(v.id_to_token), Len(v.id_to_token) + 1}

\* what may be read as a token_data outside the storage of the vector: any type
\* (also one that is no enumerator), any text
GarbageData ==
    {Tok(t, 0, ty) : t \in {<<>>, TA}, ty \in 0..(LLAMA_TOKEN_TYPE_BYTE + 1)}

\* the vocabulary as the llama_is_*_token functions see it when
\* vocab.id_to_token[id] reads g outside the vector, at index i
ReadsOutside(v, g) == [v EXCEPT !.id_to_token = <<g>>]

\* llama_token_to_text(vocab, token).  For a token that is no index of
\* id_to_token the unchecked vocab.id_to_token[id] is undefined behaviour: the
\* read faults, or it gives whatever lies there
Decode(token) ==
    /\ pc # "failed" /\ tok_pc # "failed"
    /\ tok_id' = token
    /\ IF InVocab(vocab, token)
       THEN LET r == llama_token_to_text(vocab, token)
            IN  /\ tok_pc' = IF r.ok THEN "done" ELSE "failed"
                /\ tok_text' = r.text
       ELSE \/ tok_pc' = "failed" /\ tok_text' = <<>>
            \/ \E g \in GarbageData :
                  LET r == llama_token_to_text(ReadsOutside(vocab, g), 0)
                  IN  /\ tok_pc' = IF r.ok THEN "done" ELSE "failed"
                      /\ tok_text' = r.text
    /\ UNCHANGED <<vocab, pc, raw_text, bos, escape, text, symbols, work_queue, rev_merge,
                   output, offs, index, seed_i, bigram, applied, emit_i, stack, first,
                   pushes, other>>

\* the caller's single call, with an id of the vocabulary
DecodeInside ==
    /\ tok_pc = "none"
    /\ \E token \in 0..(Len(vocab.id_to_token) - 1) : Decode(token)

\* the caller's single call, with an id outside the vocabulary
DecodeOutside ==
    /\ tok_pc = "none"
    /\ \E token \in OutsideIds(vocab) : Decode(token)

InitDecode == vocab \in DecodeVocabs /\ Idle

NextDecode ==
    \/ DecodeInside
    \/ DecodeOutside

SpecDecode == InitDecode /\ [][NextDecode]_vars

(***************************************************************************)
(* The two byte functions called on their own: tok_text holds the byte     *)
(* given and then the byte returned, tok_id the id.                        *)
(***************************************************************************)
\* llama_byte_to_token(vocab, b)
ByteToToken ==
    /\ tok_pc = "none"
    /\ \E b \in 0..255 :
         LET r == llama_byte_to_token(vocab, b)
         IN  /\ tok_text' = <<b>>
             /\ tok_id' = r.id
             /\ tok_pc' = IF r.ok THEN "token" ELSE "failed"
    /\ UNCHANGED <<vocab, pc, raw_text, bos, escape, text, symbols, work_queue, rev_merge,
                   output, offs, index, seed_i, bigram, applied, emit_i, stack, first,
                   pushes, other>>

\* llama_token_to_byte(vocab, id) on the id llama_byte_to_token returned; for
\* an id that is no index of id_to_token the read of the assertion faults or
\* gives garbage, and then at(id) throws
TokenToByte ==
    /\ tok_pc = "token"
    /\ IF InVocab(vocab, tok_id)
       THEN LET r == llama_token_to_byte(vocab, tok_id)
            IN  /\ tok_pc' = IF r.ok THEN "byte" ELSE "failed"
                /\ tok_text' = IF r.ok THEN Append(tok_text, r.byte) ELSE tok_text
       ELSE tok_pc' = "failed" /\ tok_text' = tok_text
    /\ UNCHANGED <<vocab, pc, raw_text, bos, escape, text, symbols, work_queue, rev_merge,
                   output, offs, index, seed_i, bigram, applied, emit_i, stack, first,
                   pushes, tok_id, other>>

\* llama_token_to_byte(vocab, id) on any id of the vocabulary
TokenToByteDirect ==
    /\ tok_pc = "none"
    /\ \E id \in 0..(Len(vocab.id_to_token) - 1) :
         LET r == llama_token_to_byte(vocab, id)
         IN  /\ tok_id' = id
             /\ tok_pc' = IF r.ok THEN "direct" ELSE "failed"
             /\ tok_text' = IF r.ok THEN <<r.byte>> ELSE <<>>
    /\ UNCHANGED <<vocab, pc, raw_text, bos, escape, text, symbols, work_queue, rev_merge,
                   output, offs, index, seed_i, bigram, applied, emit_i, stack, first,
                   pushes, other>>

NextBytes ==
    \/ ByteToToken
    \/ TokenToByte
    \/ TokenToByteDirect

SpecBytes == InitDecode /\ [][NextBytes]_vars

(***************************************************************************)
(* A caller that tokenizes texts and prints ids it got, again and again,   *)
(* with one vocabulary.                                                    *)
(***************************************************************************)
UseCall ==
    /\ pc \in {"idle", "returned"}
    /\ \E t \in SmallTexts, b \in BOOLEAN, e \in BOOLEAN : spm_tokenize(t, b, e)
    /\ UNCHANGED other

\* llama_token_to_text on an id of the output of the last call
DecodeOutput ==
    /\ pc = "returned"
    /\ \E k \in DOMAIN output : Decode(output[k])

NextUse ==
    \/ UseCall
    \/ Split
    \/ SplitDone
    \/ Seed
    \/ SeedDone
    \/ MergeStep
    \/ MergeDone
    \/ Emit
    \/ Return
    \/ DecodeOutput

SpecUse == Init /\ [][NextUse]_vars

(***************************************************************************)
(* Two calls of spm_tokenize at a time, on different texts, with one       *)
(* vocabulary.  The variables of the call hold the state of the call that  *)
(* takes steps, other holds the state of the call that waits; the threads  *)
(* may be switched between any two steps.  The call that is run alone      *)
(* first is made again as one of the two.                                  *)
(***************************************************************************)
\* mutant: one output vector for all calls (static)
Locals_static_output ==
    [pc |-> pc, raw_text |-> raw_text, bos |-> bos, escape |-> escape, text |-> text,
     symbols |-> symbols, work_queue |-> work_queue, rev_merge |-> rev_merge,
     offs |-> offs, index |-> index, seed_i |-> seed_i,
     bigram |-> bigram, applied |-> applied, emit_i |-> emit_i, stack |-> stack,
     pushes |-> pushes]

\* what a call of spm_tokenize owns: its parameters, its output vector, its
\* llm_tokenizer_spm (symbols, work_queue, rev_merge) and the locals of tokenize
Locals ==
    [pc |-> pc, raw_text |-> raw_text, bos |-> bos, escape |-> escape, text |-> text,
     symbols |-> symbols, work_queue |-> work_queue, rev_merge |-> rev_merge,
     output |-> output, offs |-> offs, index |-> index, seed_i |-> seed_i,
     bigram |-> bigram, applied |-> applied, emit_i |-> emit_i, stack |-> stack,
     pushes |-> pushes]

\* a call spm_tokenize(vocab, t, b, e) that has not taken its first step
PendingCall(t, b, e) ==
    [pc |-> "called", raw_text |-> t, bos |-> b, escape |-> e, text |-> <<>>,
     symbols |-> <<>>, work_queue |-> <<>>, rev_merge |-> <<>>,
     output |-> <<>>, offs |-> 0, index |-> 0, seed_i |-> 0,
     bigram |-> NoBigram, applied |-> FALSE, emit_i |-> 0, stack |-> <<>>,
     pushes |-> 0]

\* what the call th finds at f when it goes on: its own f if it owns one, else
\* the one all calls share
Own(th, f, shared) == IF f \in DOMAIN th THEN th[f] ELSE shared

\* the call made alone
CallAlone ==
    /\ pc = "idle"
    /\ other = <<>>
    /\ \E t \in SmallTexts, b \in BOOLEAN, e \in BOOLEAN : spm_tokenize(t, b, e)
    /\ UNCHANGED other

\* after the call made alone has returned: the same call is made again, and a
\* second thread is about to call spm_tokenize on another text
CallTwo ==
    /\ pc = "returned"
    /\ first = <<>>
    /\ other = <<>>
    /\ \E t \in SmallTexts \ {raw_text}, b \in BOOLEAN, e \in BOOLEAN :
          other' = <<PendingCall(t, b, e)>>
    /\ spm_tokenize(raw_text, bos, escape)

\* the first step of the call of the second thread
Enter ==
    /\ pc = "called"
    /\ spm_tokenize(raw_text, bos, escape)
    /\ UNCHANGED other

\* the scheduler: the call that takes steps waits, the one that waited goes on
Switch ==
    /\ other # <<>>
    /\ pc # "failed"
    /\ other[1].pc # "returned"
    /\ other' = <<Locals>>
    /\ LET th == other[1]
       IN  /\ pc' = Own(th, "pc", pc)
           /\ raw_text' = Own(th, "raw_text", raw_text)
           /\ bos' = Own(th, "bos", bos)
           /\ escape' = Own(th, "escape", escape)
           /\ text' = Own(th, "text", text)
           /\ symbols' = Own(th, "symbols", symbols)
           /\ work_queue' = Own(th, "work_queue", work_queue)
           /\ rev_merge' = Own(th, "rev_merge", rev_merge)
           /\ output' = Own(th, "output", output)
           /\ offs' = Own(th, "offs", offs)
           /\ index' = Own(th, "index", index)
           /\ seed_i' = Own(th, "seed_i", seed_i)
           /\ bigram' = Own(th, "bigram", bigram)
           /\ applied' = Own(th, "applied", applied)
           /\ emit_i' = Own(th, "emit_i", emit_i)
           /\ stack' = Own(th, "stack", stack)
           /\ pushes' = Own(th, "pushes", pushes)
    /\ UNCHANGED <<vocab, first, tok_pc, tok_id, tok_text>>

NextTwo ==
    \/ CallAlone
    \/ CallTwo
    \/ Enter
    \/ Switch
    \/ Split
    \/ SplitDone
    \/ Seed
    \/ SeedDone
    \/ MergeStep
    \/ MergeDone
    \/ Emit
    \/ Return

SpecTwo == Init /\ [][NextTwo]_vars

(***************************************************************************)
(* Notions the properties are stated with.                                 *)
(***************************************************************************)
\* the symbols visited from index i along next, at most fuel of them
RECURSIVE WalkFrom(_, _, _)
WalkFrom(syms, i, fuel) ==
    IF i = -1 \/ fuel = 0 \/ i + 1 \notin DOMAIN syms THEN <<>>
    ELSE <<i>> \o WalkFrom(syms, syms[i + 1].next, fuel - 1)

\* the walk of the final loop of tokenize
Walk == WalkFrom(symbols, 0, Len(symbols))

\* tokenize is past the construction of the span table
Constructed == pc \in {"seed", "merge", "emit"} \/ (pc = "returned" /\ raw_text # <<>>)

\* the walk visits live spans only, ends at a span without next, and the byte
\* ranges visited are consecutive from offset 0 to the end of str
IsPartition(syms, str) ==
    LET w == WalkFrom(syms, 0, Len(syms))
    IN  /\ w # <<>>
        /\ \A k \in DOMAIN w : syms[w[k] + 1].n > 0
        /\ syms[w[1] + 1].text = 0
        /\ \A k \in 1..(Len(w) - 1) :
              syms[w[k + 1] + 1].text = syms[w[k] + 1].text + syms[w[k] + 1].n
        /\ syms[w[Len(w)] + 1].next = -1
        /\ syms[w[Len(w)] + 1].text + syms[w[Len(w)] + 1].n = Len(str)

\* t is the text of a token whose id is an index of id_to_token
IsToken(v, t) ==
    /\ t \in DOMAIN v.token_to_id
    /\ ~SizeTGeq(v.token_to_id[t], Len(v.id_to_token))

\* the score of the token of text t
ScoreOf(v, t) == v.id_to_token[v.token_to_id[t] + 1].score

\* the string is three code points x y z, xy and yz are tokens of one score,
\* xyz is no token
TieScenario ==
    /\ Len(symbols) = 3
    /\ LET xy == SubSeq(text, 1, symbols[3].text)
           yz == SubSeq(text, symbols[2].text + 1, Len(text))
       IN  /\ IsToken(vocab, xy) /\ IsToken(vocab, yz)
           /\ ScoreOf(vocab, xy) = ScoreOf(vocab, yz)
    /\ text \notin DOMAIN vocab.token_to_id

\* the lengths of the spans of the walk, in order
WalkLengths == [k \in DOMAIN Walk |-> symbols[Walk[k] + 1].n]

\* the highest score in a queue
MaxScore(q) == CHOOSE m \in {q[k].score : k \in DOMAIN q} :
                   \A k \in DOMAIN q : q[k].score <= m

\* a pop of the merge loop is about to happen
AtPop == pc = "merge" /\ work_queue # <<>>

(***************************************************************************)
(* C1: once the span table is built, the walk from symbol 0 along next     *)
(* visits live spans only and their byte ranges cover the tokenized text   *)
(* exactly once, in order, without gap or overlap.                         *)
(***************************************************************************)
C1_Partition == Constructed => IsPartition(symbols, text)

\* a merge has just been applied and left more than one span
C1_Witness ==
    /\ pc = "merge" /\ applied
    /\ Len(Walk) >= 2 /\ Len(Walk) < Len(symbols)

(***************************************************************************)
(* C2 as stated: among the candidates of highest score the one with the    *)
(* larger left index is popped first, and in the tie scenario the final    *)
(* segmentation is [x, yz].                                                *)
(***************************************************************************)
C2_Original ==
    (pc = "returned" /\ raw_text # <<>> /\ TieScenario)
        => WalkLengths = <<symbols[2].text, Len(text) - symbols[2].text>>

(***************************************************************************)
(* C2 amended: among the candidates of highest score one with the smallest *)
(* left index is popped first, and in the tie scenario xy is merged first: *)
(* the final segmentation is [xy, z].                                      *)
(***************************************************************************)
C2_TieBreak ==
    /\ [][AtPop =>
            \A k \in DOMAIN work_queue :
               work_queue[k].score = MaxScore(work_queue)
                  => /\ bigram'.score = work_queue[k].score
                     /\ bigram'.left <= work_queue[k].left]_vars
    /\ []((pc = "returned" /\ raw_text # <<>> /\ TieScenario)
            => WalkLengths = <<symbols[3].text, Len(text) - symbols[3].text>>)

\* the tie scenario has run to its end
C2_Witness == pc = "returned" /\ raw_text # <<>> /\ TieScenario

(***************************************************************************)
(* C3: every pop removes a candidate whose score is maximal among all the  *)
(* candidates of the work queue, and removes only that one.                *)
(***************************************************************************)
C3_PopMax ==
    [][AtPop =>
         \E k \in DOMAIN work_queue :
            /\ bigram' = work_queue[k]
            /\ \A j \in DOMAIN work_queue : work_queue[j].score <= bigram'.score
            /\ RemoveAt(work_queue, k) = SubSeq(work_queue', 1, Len(work_queue) - 1)]_vars

\* a pop has left a candidate of lower score in the queue
C3_Witness ==
    /\ pc = "merge" /\ bigram # NoBigram
    /\ \E k \in DOMAIN work_queue : work_queue[k].score < bigram.score

(***************************************************************************)
(* Notions of the byte-fallback properties.                                *)
(***************************************************************************)
\* v holds the token "<0xHH>" of every byte value, with type byte
HasByteFamily(v) ==
    \A b \in 0..255 :
       /\ IsToken(v, ByteName(b))
       /\ v.id_to_token[v.token_to_id[ByteName(b)] + 1].type = LLAMA_TOKEN_TYPE_BYTE
       /\ v.id_to_token[v.token_to_id[ByteName(b)] + 1].text = ByteName(b)

\* t is one code point: as long as its first byte says
SingleCodePoint(t) == t # <<>> /\ Len(t) = utf8_len(t[1])

\* the concatenation of llama_token_to_text over ids; ok is FALSE when one failed
RECURSIVE DecodeAll(_, _)
DecodeAll(v, ids) ==
    IF ids = <<>> THEN [ok |-> TRUE, text |-> <<>>]
    ELSE LET h == llama_token_to_text(v, Head(ids))
             r == DecodeAll(v, Tail(ids))
         IN  [ok |-> h.ok /\ r.ok, text |-> h.text \o r.text]

\* the case of C4: no BOS, no escaping, a single code point that is no token,
\* a SentencePiece vocabulary with the whole byte-fallback family
C4_Case ==
    /\ vocab.type = LLAMA_VOCAB_TYPE_SPM
    /\ ~bos /\ ~escape
    /\ SingleCodePoint(raw_text)
    /\ raw_text \notin DOMAIN vocab.token_to_id
    /\ HasByteFamily(vocab)

\* symbol i is no token and the token of one of its bytes is missing
BadSpan(i) ==
    LET t == SymbolText(text, symbols[i + 1])
    IN  /\ t \notin DOMAIN vocab.token_to_id
        /\ \E j \in DOMAIN t : ByteName(t[j]) \notin DOMAIN vocab.token_to_id

\* the final walk has gone past symbol i
Emitted(i) == emit_i = -1 \/ symbols[i + 1].text < symbols[emit_i + 1].text

\* the call failed in the final walk
FailedInEmit == pc = "failed" /\ text # <<>> /\ offs = Len(text)

\* the split loop meets, at or after offset o, a code point longer than what is left
RECURSIVE Overruns(_, _)
Overruns(t, o) ==
    IF o >= Len(t) THEN FALSE
    ELSE IF o + utf8_len(t[o + 1]) > Len(t) THEN TRUE
    ELSE Overruns(t, o + utf8_len(t[o + 1]))

C5_MissingByteIsFatal ==
    /\ (pc = "returned" /\ raw_text # <<>>)
          => \A k \in DOMAIN Walk : ~BadSpan(Walk[k])
    /\ pc = "emit"
          => \A k \in DOMAIN Walk : Emitted(Walk[k]) => ~BadSpan(Walk[k])

\* the call failed at a span of two bytes, after the id of its first byte
C5_Witness ==
    /\ FailedInEmit /\ ~bos
    /\ BadSpan(emit_i)
    /\ symbols[emit_i + 1].n > 1
    /\ output # <<>>

(***************************************************************************)
(* C6: no span reaches past the end of the text; when a code-point length  *)
(* is larger than the bytes left the split loop fails there, nothing is    *)
(* seeded and nothing is returned.                                         *)
(***************************************************************************)
C6_OverrunIsFatal ==
    /\ [](\A k \in DOMAIN symbols : symbols[k].text + symbols[k].n <= Len(text))
    /\ []((pc # "idle" /\ Overruns(text, 0))
             => /\ pc \in {"split", "failed"}
                /\ work_queue = <<>> /\ rev_merge = <<>>
                /\ output \in {<<>>, <<vocab.special_bos_id>>})
    /\ [][(pc = "split" /\ offs < Len(text)
             /\ offs + utf8_len(text[offs + 1]) > Len(text))
            => (pc' = "failed" /\ symbols' = symbols)]_vars

\* the split loop failed after it had built a span
C6_Witness == pc = "failed" /\ Overruns(text, 0) /\ symbols # <<>>

(***************************************************************************)
(* C8: spm_tokenize on an empty text returns the empty sequence, whatever  *)
(* the vocabulary and the flags.                                           *)
(***************************************************************************)
C8_EmptyText == (raw_text = <<>> /\ pc # "idle") => (pc = "returned" /\ output = <<>>)

\* an empty text with both flags set and a vocabulary that is not SPM
C8_Witness ==
    /\ pc = "returned" /\ raw_text = <<>> /\ bos /\ escape
    /\ vocab.type # LLAMA_VOCAB_TYPE_SPM

(***************************************************************************)
(* Notions of the properties of spm_tokenize.                              *)
(***************************************************************************)
\* the number of spaces among the first j - 1 bytes of t
SpacesBefore(t, j) == Cardinality({k \in 1..(j - 1) : t[k] = SpaceByte})

\* the offset, in t with its spaces replaced, of what stands for byte j of t
PosOf(t, j) == (j - 1) + 2 * SpacesBefore(t, j)

\* r is t with every space replaced by the marker and every other byte kept
IsSpaceReplaced(t, r) ==
    /\ Len(r) = Len(t) + 2 * SpacesBefore(t, Len(t) + 1)
    /\ \A j \in DOMAIN t :
          IF t[j] = SpaceByte
          THEN SubSeq(r, PosOf(t, j) + 1, PosOf(t, j) + 3) = Marker
          ELSE r[PosOf(t, j) + 1] = t[j]

\* spm_tokenize has handed text to tokenizer.tokenize
Handed == pc # "idle" /\ raw_text # <<>> /\ vocab.type = LLAMA_VOCAB_TYPE_SPM

\* the call in progress has the arguments of the first call, which returned
SameCallAsFirst ==
    /\ first # <<>>
    /\ first[1].raw_text = raw_text
    /\ first[1].escape = escape
    /\ first[1].bos = bos

\* the call in progress differs from the first call by add_bos only
BosTwinOfFirst ==
    /\ first # <<>>
    /\ first[1].raw_text = raw_text
    /\ first[1].escape = escape
    /\ first[1].bos # bos

(***************************************************************************)
(* C7 as stated: with add_bos the output starts with the BOS id and goes   *)
(* on with the output of the same call without add_bos, for every text,    *)
(* the empty one included.                                                 *)
(***************************************************************************)
C7_Original ==
    /\ (pc = "returned" /\ bos)
          => (output # <<>> /\ output[1] = vocab.special_bos_id)
    /\ (pc = "returned" /\ BosTwinOfFirst /\ bos)
          => output = <<vocab.special_bos_id>> \o first[1].output

(***************************************************************************)
(* C7 amended: for every text that is not empty and either value of        *)
(* escape, the output of a call with add_bos that returns starts with the  *)
(* BOS id and goes on with exactly the output of the same call without     *)
(* add_bos.                                                                *)
(***************************************************************************)
C7_BosPrepended ==
    /\ (pc = "returned" /\ bos /\ raw_text # <<>>)
          => (output # <<>> /\ output[1] = vocab.special_bos_id)
    /\ (pc = "returned" /\ BosTwinOfFirst /\ bos /\ raw_text # <<>>)
          => output = <<vocab.special_bos_id>> \o first[1].output
    /\ (pc = "returned" /\ BosTwinOfFirst /\ ~bos /\ raw_text # <<>>)
          => first[1].output = <<vocab.special_bos_id>> \o output

\* a call with add_bos returned ids after the same call without add_bos
C7_Witness ==
    /\ pc = "returned" /\ BosTwinOfFirst /\ bos
    /\ Len(output) >= 2

(***************************************************************************)
(* C9 as stated: with escaping the string handed to the merge engine is    *)
(* the input with every space replaced by the marker, without escaping it  *)
(* is the input.                                                           *)
(***************************************************************************)
C9_Original ==
    Handed => IF escape THEN IsSpaceReplaced(raw_text, text) ELSE text = raw_text

(***************************************************************************)
(* C9 amended: with escaping the string handed to the merge engine is one  *)
(* marker followed by the input with every space replaced by the marker    *)
(* and every other byte kept; without escaping it is the input.            *)
(***************************************************************************)
C9_EscapePrefixed ==
    Handed =>
       IF escape
       THEN /\ Len(text) >= 3
            /\ SubSeq(text, 1, 3) = Marker
            /\ IsSpaceReplaced(raw_text, SubSeq(text, 4, Len(text)))
       ELSE text = raw_text

\* an escaped text with a space between two other bytes
C9_Witness ==
    /\ Handed /\ escape /\ pc = "split"
    /\ \E j \in DOMAIN raw_text :
          /\ raw_text[j] = SpaceByte
          /\ j > 1 /\ j < Len(raw_text)
          /\ raw_text[j - 1] # SpaceByte /\ raw_text[j + 1] # SpaceByte

(***************************************************************************)
(* C10: a call made after other calls returns what the same call returned  *)
(* when it was made first, and does not fail; every call starts with an    *)
(* empty span table, an empty work queue and an empty merge history.       *)
(***************************************************************************)
C10_SameAsFirst ==
    /\ (pc = "returned" /\ SameCallAsFirst) => output = first[1].output
    /\ pc = "failed" => ~SameCallAsFirst
    /\ (pc = "split" /\ offs = 0)
          => /\ symbols = <<>> /\ work_queue = <<>> /\ rev_merge = <<>>
             /\ output \in {<<>>, <<vocab.special_bos_id>>}

\* a later call, with merges, returned as the first call did
C10_Witness ==
    /\ pc = "returned" /\ SameCallAsFirst
    /\ bigram # NoBigram /\ applied
    /\ Len(output) >= 2

(***************************************************************************)
(* Notions of the properties of the merge loop.                            *)
(***************************************************************************)
\* the text of symbol k as the split loop built it: one code point
CodePoint(k) == StringAt(text, symbols[k].text, utf8_len(text[symbols[k].text + 1]))

\* the ids spm_tokenize pushed before tokenize
Prefix == IF bos THEN <<vocab.special_bos_id>> ELSE <<>>

\* the text is two code points and, as a whole, a token
TwoCodePointToken == Constructed /\ Len(symbols) = 2 /\ IsToken(vocab, text)

(***************************************************************************)
(* C13: a text of two code points that is, as a whole, a token whose id is *)
(* an index of id_to_token is tokenized to that id alone (after the BOS id *)
(* when asked for), whatever the two code points are in the vocabulary;    *)
(* the call does not fail.                                                 *)
(***************************************************************************)
C13_WholeToken ==
    /\ (pc = "returned" /\ TwoCodePointToken)
          => output = Prefix \o <<vocab.token_to_id[text]>>
    /\ (pc = "failed" /\ text # <<>> /\ offs = Len(text) /\ Len(symbols) = 2)
          => ~IsToken(vocab, text)

\* such a text whose first code point is no token
C13_Witness ==
    /\ pc = "returned" /\ TwoCodePointToken
    /\ CodePoint(1) \notin DOMAIN vocab.token_to_id

\* no two adjacent code points of the text make, together, a key of token_to_id
NoPairIsToken ==
    \A k \in 1..(Len(symbols) - 1) :
       (CodePoint(k) \o CodePoint(k + 1)) \notin DOMAIN vocab.token_to_id

\* the ids of the code points k, k + 1, ... taken one by one: the id of the
\* code point when it is a token, else the ids of the tokens of its bytes
RECURSIVE SinglesFrom(_)
SinglesFrom(k) ==
    IF k > Len(symbols) THEN <<>>
    ELSE LET cp == CodePoint(k)
         IN  (IF cp \in DOMAIN vocab.token_to_id
              THEN <<vocab.token_to_id[cp]>>
              ELSE [j \in DOMAIN cp |-> vocab.token_to_id[ByteName(cp[j])]])
             \o SinglesFrom(k + 1)

(***************************************************************************)
(* C14: when no two adjacent code points make a token, no candidate is     *)
(* registered and no merge is applied: every span stays one code point,    *)
(* and the call returns, in the order of the text, the id of every code    *)
(* point that is a token (the ids of its bytes for one that is not).       *)
(***************************************************************************)
C14_NoMerge ==
    /\ (Constructed /\ NoPairIsToken)
          => /\ work_queue = <<>> /\ rev_merge = <<>> /\ bigram = NoBigram
             /\ \A k \in DOMAIN symbols : symbols[k].n = Len(CodePoint(k))
             /\ Walk = [k \in DOMAIN symbols |-> k - 1]
    /\ (pc = "returned" /\ raw_text # <<>> /\ NoPairIsToken)
          => output = Prefix \o SinglesFrom(1)

\* two different code points, both tokens, that make no token together
C14_Witness ==
    /\ pc = "returned" /\ raw_text # <<>> /\ NoPairIsToken
    /\ Len(symbols) = 2
    /\ CodePoint(1) # CodePoint(2)
    /\ \A k \in DOMAIN symbols : CodePoint(k) \in DOMAIN vocab.token_to_id

\* the text of the two spans of candidate bg of the work queue
BigramText(bg) == StringAt(text, symbols[bg.left + 1].text, bg.size)

\* the places, in the queue after a step of the seeding loop or of the merge
\* loop, of the candidates the step has pushed (a merge step pops one first)
NewCandidates ==
    {k \in DOMAIN work_queue' :
        k > Len(work_queue) - (IF pc = "merge" /\ work_queue # <<>> THEN 1 ELSE 0)}

\* the text of the candidate at place k of the queue after the step
NewText(k) ==
    StringAt(text, symbols'[work_queue'[k].left + 1].text, work_queue'[k].size)

\* the pair of the candidate at place k of the queue after the step
NewPair(k) == <<work_queue'[k].left, work_queue'[k].right>>

(***************************************************************************)
(* C19 as stated: an entry of the merge history, once written, is never    *)
(* removed and its value (left, right) never changes during the call.      *)
(***************************************************************************)
C19_Original ==
    [][(pc \in {"seed", "merge"})
          => \A t \in DOMAIN rev_merge :
                (t \in DOMAIN rev_merge' /\ rev_merge[t] = rev_merge'[t])]_vars

(***************************************************************************)
(* C19 amended: during one call of tokenize no entry of the merge history  *)
(* is removed; an entry is written or changed only by the registration of  *)
(* a pair with that text, and after a registration the entry of the text   *)
(* holds the pair registered last, whether the text had an entry or not.   *)
(***************************************************************************)
C19_LastWriterWins ==
    [][(pc \in {"seed", "merge"})
          => /\ \A t \in DOMAIN rev_merge : t \in DOMAIN rev_merge'
             /\ \A t \in DOMAIN rev_merge' :
                   (t \notin DOMAIN rev_merge \/ rev_merge'[t] # rev_merge[t])
                      => \E k \in NewCandidates :
                            NewText(k) = t /\ rev_merge'[t] = NewPair(k)
             /\ \A k \in NewCandidates :
                   (\A j \in NewCandidates : j > k => NewText(j) # NewText(k))
                      => /\ NewText(k) \in DOMAIN rev_merge'
                         /\ rev_merge'[NewText(k)] = NewPair(k)]_vars

\* a candidate that can still be applied whose text has, in the merge
\* history, the pair of a later registration
C19_Witness ==
    /\ pc \in {"seed", "merge"}
    /\ \E k \in DOMAIN work_queue :
          LET bg == work_queue[k]
          IN  /\ symbols[bg.left + 1].n > 0 /\ symbols[bg.right + 1].n > 0
              /\ symbols[bg.left + 1].n + symbols[bg.right + 1].n = bg.size
              /\ BigramText(bg) \in DOMAIN rev_merge
              /\ rev_merge[BigramText(bg)] # <<bg.left, bg.right>>

\* both spans of candidate bg are live and their lengths add up to its size
PassesCheck(bg) ==
    /\ symbols[bg.left + 1].n > 0
    /\ symbols[bg.right + 1].n > 0
    /\ symbols[bg.left + 1].n + symbols[bg.right + 1].n = bg.size

(***************************************************************************)
(* C20: the candidate popped is applied (the span table changes) if and    *)
(* only if both of its spans are live and their lengths add up to its      *)
(* size; when it is not, the step removes the candidate from the queue and *)
(* changes nothing else: span table, merge history and output are as they  *)
(* were, no candidate is pushed, and the loop is at its next pop.          *)
(***************************************************************************)
C20_StaleIsSilent ==
    [][AtPop =>
         /\ PassesCheck(bigram') <=> symbols' # symbols
         /\ ~PassesCheck(bigram')
               => /\ symbols' = symbols /\ rev_merge' = rev_merge /\ output' = output
                  /\ Len(work_queue') = Len(work_queue) - 1
                  /\ \E k \in DOMAIN work_queue :
                        work_queue[k] = bigram' /\ work_queue' = RemoveAt(work_queue, k)
                  /\ pc' = "merge"]_vars

\* a candidate was discarded for its size alone: both of its spans are live
C20_Witness ==
    /\ pc = "merge" /\ bigram # NoBigram
    /\ ~PassesCheck(bigram)
    /\ symbols[bigram.left + 1].n > 0 /\ symbols[bigram.right + 1].n > 0
    /\ ~applied

\* the number of live spans
LiveCount == Cardinality({k \in DOMAIN symbols : symbols[k].n > 0})

\* the split loop of a call on a text that is not empty has ended
SplitEnded == pc \in {"seed", "merge", "emit", "returned"} /\ raw_text # <<>>

(***************************************************************************)
(* C15: the merge loop ends with an empty work queue.  Every pop takes one *)
(* candidate out of the queue; a merge that is applied leaves one live     *)
(* span less and pushes at most two candidates, a pop that is discarded    *)
(* pushes none; so, with n the number of code points, at most n - 1 merges *)
(* are applied and at most 3 (n - 1) candidates are pushed in a call.      *)
(***************************************************************************)
C15_MergeLoopEnds ==
    /\ [](SplitEnded => /\ LiveCount >= 1
                        /\ Len(symbols) - LiveCount <= Len(symbols) - 1
                        /\ pushes <= 3 * (Len(symbols) - 1))
    /\ [][AtPop => /\ Len(work_queue') - (pushes' - pushes) = Len(work_queue) - 1
                   /\ pushes' - pushes \in {0, 1, 2}
                   /\ symbols' # symbols => LiveCount' = LiveCount - 1
                   /\ symbols' = symbols => pushes' = pushes]_vars
    /\ (pc = "merge") ~> (pc = "emit" /\ work_queue = <<>>)

\* the merge loop has ended after merges that pushed candidates of their own
C15_Witness ==
    /\ pc = "emit" /\ work_queue = <<>>
    /\ Len(symbols) >= 3 /\ LiveCount = 1
    /\ pushes > Len(symbols) - 1

\* the symbol the next invocation of resegment is made on
Invoked == IF stack # <<>> THEN Head(stack) ELSE emit_i

\* the invocations that were pending besides the one that runs
Pending == IF stack # <<>> THEN Tail(stack) ELSE <<>>

(***************************************************************************)
(* C16: resegment ends for every span of the final walk: an invocation     *)
(* that recurses does so on two spans that are both shorter, at that       *)
(* moment, than its own span, the invocations pending never exceed the     *)
(* length of the text, and the final walk ends (tokenize returns or the    *)
(* call fails).                                                            *)
(***************************************************************************)
C16_ResegmentEnds ==
    /\ [][(pc = "emit" /\ stack' # Pending)
            => /\ Len(stack') = Len(Pending) + 2
               /\ symbols[stack'[1] + 1].n < symbols[Invoked + 1].n
               /\ symbols[stack'[2] + 1].n < symbols[Invoked + 1].n]_vars
    /\ [](Len(stack) <= Len(text))
    /\ (pc = "emit") ~> (pc \in {"returned", "failed"})

\* the final walk has ended after resegment was invoked on a merged span and
\* on a span that is no token, with entries in the merge history
C16_Witness ==
    /\ pc = "emit" /\ emit_i = -1 /\ stack = <<>>
    /\ rev_merge # <<>>
    /\ \E k \in DOMAIN Walk : symbols[Walk[k] + 1].n > Len(CodePoint(Walk[k] + 1))
    /\ \E k \in DOMAIN Walk :
          SymbolText(text, symbols[Walk[k] + 1]) \notin DOMAIN vocab.token_to_id

(***************************************************************************)
(* Notions of the properties of llama_token_to_text.                       *)
(***************************************************************************)
\* t with every marker replaced by one space, from the left
RECURSIVE MarkersToSpaces(_)
MarkersToSpaces(t) ==
    IF t = <<>> THEN <<>>
    ELSE IF Len(t) >= 3 /\ SubSeq(t, 1, 3) = <<226, 150, 129>>
    THEN <<32>> \o MarkersToSpaces(SubSeq(t, 4, Len(t)))
    ELSE <<t[1]>> \o MarkersToSpaces(Tail(t))

\* the stored text of token d is "<0xHH>" with two uppercase hex digits
IsByteName(d) == \E b \in 0..255 : ByteName(b) = d.text

\* the text the type of token id determines
TextByType(v, id) ==
    LET d == v.id_to_token[id + 1]
    IN  CASE d.type = LLAMA_TOKEN_TYPE_NORMAL ->
                IF v.type = LLAMA_VOCAB_TYPE_SPM THEN MarkersToSpaces(d.text) ELSE d.text
          [] d.type = LLAMA_TOKEN_TYPE_UNKNOWN -> <<226, 150, 133>>
          [] d.type = LLAMA_TOKEN_TYPE_CONTROL -> <<>>
          [] d.type = LLAMA_TOKEN_TYPE_BYTE ->
                <<(CHOOSE b \in 0..255 : ByteName(b) = d.text)>>
          [] OTHER -> <<>>

\* llama_token_to_text was called with an id of the vocabulary
DecodedInside == tok_pc # "none" /\ InVocab(vocab, tok_id)

(***************************************************************************)
(* C11: for an id of the vocabulary llama_token_to_text returns, and the   *)
(* text it returns is the one the type of the token determines: the stored *)
(* text with every marker replaced by a space (as stored when the          *)
(* vocabulary is not SPM) for normal, E2 96 85 for unknown, the byte of    *)
(* the two hex digits for byte, the empty string for every other type.     *)
(***************************************************************************)
C11_TextByType ==
    (DecodedInside
       /\ (vocab.id_to_token[tok_id + 1].type = LLAMA_TOKEN_TYPE_BYTE
             => IsByteName(vocab.id_to_token[tok_id + 1])))
        => (tok_pc = "done" /\ tok_text = TextByType(vocab, tok_id))

\* a normal token with markers, of more than 8 bytes after their replacement
C11_Witness ==
    /\ DecodedInside /\ tok_pc = "done"
    /\ vocab.type = LLAMA_VOCAB_TYPE_SPM
    /\ vocab.id_to_token[tok_id + 1].type = LLAMA_TOKEN_TYPE_NORMAL
    /\ tok_text # vocab.id_to_token[tok_id + 1].text
    /\ Len(tok_text) > 8

(***************************************************************************)
(* C12: llama_token_to_text called with an id that is negative or not      *)
(* smaller than id_to_token.size() fails: it never returns a text.         *)
(***************************************************************************)
C12_OutsideIsFatal ==
    (tok_pc # "none" /\ ~InVocab(vocab, tok_id)) => tok_pc = "failed"

(***************************************************************************)
(* C17: no step of spm_tokenize or of llama_token_to_text changes the      *)
(* vocabulary (token_to_id, id_to_token, type, special ids), and a call of *)
(* llama_token_to_text with the id of the call before it, whatever calls   *)
(* of spm_tokenize were made in between, returns the same text.            *)
(***************************************************************************)
C17_VocabularyKept ==
    /\ [][vocab' = vocab]_vars
    /\ [][(tok_pc = "done" /\ tok_id' = tok_id /\ InVocab(vocab, tok_id))
            => (tok_pc' = "done" /\ tok_text' = tok_text)]_vars

\* an id was turned into text, and a later call of spm_tokenize, the second
\* at least, has applied a merge and returned other ids
C17_Witness ==
    /\ tok_pc = "done" /\ tok_text # <<>>
    /\ pc = "returned" /\ first # <<>>
    /\ bigram # NoBigram /\ applied
    /\ \A k \in DOMAIN output : output[k] # tok_id

\* two calls are in progress or over, and the call whose state shows has the
\* arguments of the call that was made alone
TwinOfTwo == other # <<>> /\ SameCallAsFirst

(***************************************************************************)
(* C18: of two calls on different texts that share the vocabulary and take *)
(* their steps in any order, the one that was also made alone returns the  *)
(* ids it returned alone and does not fail; no step of one call changes    *)
(* what the other owns: a call that waits is found as it was left, span    *)
(* table, work queue and merge history included; the vocabulary is only    *)
(* read.                                                                   *)
(***************************************************************************)
C18_TwoCalls ==
    /\ [](TwinOfTwo /\ pc = "returned" => output = first[1].output)
    /\ [](TwinOfTwo => pc # "failed")
    /\ [](other # <<>> => other[1].raw_text # raw_text)
    /\ [][(other # <<>> /\ raw_text' = raw_text) => other' = other]_vars
    /\ [][(other # <<>> /\ raw_text' # raw_text)
            => /\ symbols' = other[1].symbols
               /\ work_queue' = other[1].work_queue
               /\ rev_merge' = other[1].rev_merge
               /\ other'[1].symbols = symbols
               /\ other'[1].work_queue = work_queue
               /\ other'[1].rev_merge = rev_merge]_vars
    /\ [][vocab' = vocab]_vars

\* the call that was also made alone has returned after a merge, while the
\* other call is in its merge loop and has popped a candidate
C18_Witness ==
    /\ TwinOfTwo /\ pc = "returned"
    /\ bigram # NoBigram /\ applied
    /\ other[1].pc = "merge" /\ other[1].bigram # NoBigram

(***************************************************************************)
(* Notions of the properties of candidates.                                *)
(***************************************************************************)
\* the number of code points of the text that span i (0-based) covers
SpanCodePoints(i) ==
    Cardinality({k \in DOMAIN symbols :
                    /\ symbols[k].text >= symbols[i + 1].text
                    /\ symbols[k].text < symbols[i + 1].text + symbols[i + 1].n})

\* the lengths the two spans of candidate bg had when it was registered: the
\* left span ended where the right one starts, and bg.size is their sum
LeftLenAtPush(syms, bg) == syms[bg.right + 1].text - syms[bg.left + 1].text
RightLenAtPush(syms, bg) == bg.size - LeftLenAtPush(syms, bg)

\* candidate bg, as pushed: two live spans, adjacent in the chain and in the
\* text, whose lengths add up to bg.size, and bg.score is the score of the
\* token their text is
WellRegistered(syms, bg) ==
    /\ bg.left >= 0 /\ bg.right >= 0
    /\ syms[bg.left + 1].n > 0 /\ syms[bg.right + 1].n > 0
    /\ syms[bg.left + 1].next = bg.right /\ syms[bg.right + 1].prev = bg.left
    /\ syms[bg.left + 1].text + syms[bg.left + 1].n = syms[bg.right + 1].text
    /\ syms[bg.left + 1].n + syms[bg.right + 1].n = bg.size
    /\ IsToken(vocab, StringAt(text, syms[bg.left + 1].text, bg.size))
    /\ ScoreOf(vocab, StringAt(text, syms[bg.left + 1].text, bg.size)) = bg.score

\* one of the spans of bg took part in a merge after bg was pushed: it is dead
\* or has grown
Touched(syms, bg) ==
    \/ syms[bg.left + 1].n # LeftLenAtPush(syms, bg)
    \/ syms[bg.right + 1].n # RightLenAtPush(syms, bg)

(***************************************************************************)
(* C21: every candidate is pushed for two adjacent live spans whose text   *)
(* is a token; a candidate that passes the check at its pop still refers   *)
(* to two adjacent live spans with the byte ranges they had at the push,   *)
(* and the span its merge makes has the text of that token; a candidate    *)
(* one of whose spans took part in a merge since the push does not pass.   *)
(***************************************************************************)
C21_LengthCheckSuffices ==
    /\ [][(pc \in {"seed", "merge"})
            => \A k \in NewCandidates : WellRegistered(symbols', work_queue'[k])]_vars
    /\ [][AtPop =>
            /\ PassesCheck(bigram')
                  => /\ WellRegistered(symbols, bigram')
                     /\ ~Touched(symbols, bigram')
                     /\ SymbolText(text, symbols'[bigram'.left + 1]) = BigramText(bigram')
            /\ Touched(symbols, bigram') => (~PassesCheck(bigram') /\ symbols' = symbols)]_vars

\* a candidate pushed after a merge has passed the check (its merge made a
\* span of three code points), and a candidate one of whose spans took part in
\* a merge is still in the queue
C21_Witness ==
    /\ pc = "merge" /\ applied
    /\ SpanCodePoints(bigram.left) >= 3
    /\ \E k \in DOMAIN work_queue : Touched(symbols, work_queue[k])

(***************************************************************************)
(* C22: the merge of a candidate (l, r) that passes the check changes the  *)
(* span table in this way only: l.n becomes l.n + r.n, r.n becomes 0,      *)
(* l.next becomes r.next, and the prev of the span that was r.next, if     *)
(* there is one, becomes l.  l.prev and the offset of l stay; so does      *)
(* every other field of r and of the old r.next, every field of every      *)
(* other span, and the size of the table.                                  *)
(***************************************************************************)
C22_Splice ==
    [][(AtPop /\ PassesCheck(bigram'))
         => LET l == bigram'.left + 1
                r == bigram'.right + 1
                x == symbols[r].next + 1
            IN  /\ Len(symbols') = Len(symbols)
                /\ symbols'[l].n = symbols[l].n + symbols[r].n
                /\ symbols'[r].n = 0
                /\ symbols'[l].next = symbols[r].next
                /\ symbols'[l].prev = symbols[l].prev
                /\ symbols'[l].text = symbols[l].text
                /\ symbols'[r] = [symbols[r] EXCEPT !.n = 0]
                /\ x >= 1 => symbols'[x] = [symbols[x] EXCEPT !.prev = l - 1]
                /\ \A k \in DOMAIN symbols :
                      k \notin {l, r, x} => symbols'[k] = symbols[k]]_vars

\* a merge between a span before l and a span after r has been applied
C22_Witness ==
    /\ pc = "merge" /\ applied
    /\ symbols[bigram.left + 1].prev >= 0
    /\ symbols[bigram.left + 1].next >= 0
    /\ symbols[symbols[bigram.left + 1].next + 1].prev = bigram.left
    /\ bigram.right # bigram.left + 1

(***************************************************************************)
(* Notions of the properties of try_add_bigram.                            *)
(***************************************************************************)
\* the text of spans l and r of the table syms, one after the other
PairText(syms, l, r) == StringAt(text, syms[l + 1].text, syms[l + 1].n + syms[r + 1].n)

\* neither l nor r is the sentinel and their text is a key of token_to_id whose
\* id is an index of id_to_token
Registerable(syms, l, r) ==
    /\ l # -1 /\ r # -1
    /\ PairText(syms, l, r) \in DOMAIN vocab.token_to_id
    /\ vocab.token_to_id[PairText(syms, l, r)] \in 0..(Len(vocab.id_to_token) - 1)

\* what try_add_bigram(l, r) is to push: nothing, or the one candidate
PushedBy(syms, l, r) ==
    IF Registerable(syms, l, r)
    THEN <<[left |-> l, right |-> r,
            score |-> vocab.id_to_token[vocab.token_to_id[PairText(syms, l, r)] + 1].score,
            size |-> syms[l + 1].n + syms[r + 1].n]>>
    ELSE <<>>

\* the merge history rm after try_add_bigram(l, r): rm, or rm with the one
\* entry of the text written
HistoryAfter(rm, syms, l, r) ==
    IF Registerable(syms, l, r)
    THEN [t \in DOMAIN rm \cup {PairText(syms, l, r)} |->
             IF t = PairText(syms, l, r) THEN <<l, r>> ELSE rm[t]]
    ELSE rm

(***************************************************************************)
(* C23: try_add_bigram(left, right) pushes one candidate (left, right,     *)
(* score of the token, length of the text) and writes the entry of the     *)
(* text in the merge history when neither argument is -1 and the text of   *)
(* the two spans is a key of token_to_id with an id that is an index of    *)
(* id_to_token; in every other case it leaves the queue and the history    *)
(* as they are; it never fails.  Stated for the call of the seeding loop   *)
(* and for the two calls that follow a merge.                              *)
(***************************************************************************)
C23_Registration ==
    /\ [][(pc = "seed" /\ seed_i < Len(symbols))
            => /\ work_queue' = work_queue \o PushedBy(symbols, seed_i - 1, seed_i)
               /\ rev_merge' = HistoryAfter(rev_merge, symbols, seed_i - 1, seed_i)
               /\ pc' = "seed"]_vars
    /\ [][(AtPop /\ symbols' # symbols)
            => LET l == bigram'.left
                   p == symbols'[l + 1].prev
                   n == symbols'[l + 1].next
               IN  /\ SubSeq(work_queue', Len(work_queue), Len(work_queue'))
                         = PushedBy(symbols', p, l) \o PushedBy(symbols', l, n)
                   /\ rev_merge' = HistoryAfter(HistoryAfter(rev_merge, symbols', p, l),
                                                symbols', l, n)
                   /\ pc' = "merge"]_vars

\* after a merge into span 0 the call with the sentinel -1 has pushed nothing
\* and the call with the next span has pushed a candidate
C23_Witness ==
    /\ pc = "merge" /\ applied
    /\ bigram.left = 0
    /\ symbols[1].next >= 0
    /\ work_queue # <<>>
    /\ work_queue[Len(work_queue)].left = 0
    /\ work_queue[Len(work_queue)].right = symbols[1].next
    /\ work_queue[Len(work_queue)].size = symbols[1].n + symbols[symbols[1].next + 1].n

\* the registration try_add_bigram(l, r) makes, if it makes one
RegOf(syms, l, r) ==
    IF Registerable(syms, l, r)
    THEN <<[text |-> PairText(syms, l, r), pair |-> <<l, r>>]>>
    ELSE <<>>

\* the registrations of a step of the seeding loop or of the merge loop, in
\* the order they are made
StepRegistrations ==
    IF pc = "seed" /\ seed_i' # seed_i
    THEN RegOf(symbols, seed_i - 1, seed_i)
    ELSE IF AtPop /\ symbols' # symbols
    THEN RegOf(symbols', symbols'[bigram'.left + 1].prev, bigram'.left)
         \o RegOf(symbols', bigram'.left, symbols'[bigram'.left + 1].next)
    ELSE <<>>

\* the last of the registrations regs that is one of text t (0: none)
LastOf(regs, t) ==
    IF \E k \in DOMAIN regs : regs[k].text = t
    THEN CHOOSE k \in DOMAIN regs :
            /\ regs[k].text = t
            /\ \A j \in DOMAIN regs : regs[j].text = t => j <= k
    ELSE 0

(***************************************************************************)
(* C24: the value the merge history holds for a text is the pair of the    *)
(* most recent registration of that text that went through: a step that    *)
(* registers the text leaves the pair of its last registration of it,      *)
(* whatever pair was there, and a step that does not register it leaves    *)
(* its entry, or its absence, as it was.  (So the pair of a text that      *)
(* occurs twice can be the pair of the occurrence that was not merged.)    *)
(***************************************************************************)
C24_MostRecentPair ==
    [][(pc \in {"seed", "merge"})
         => LET regs == StepRegistrations
            IN  /\ \A k \in DOMAIN regs : regs[k].text \in DOMAIN rev_merge'
                /\ \A t \in DOMAIN rev_merge \cup DOMAIN rev_merge' :
                      IF LastOf(regs, t) # 0
                      THEN rev_merge'[t] = regs[LastOf(regs, t)].pair
                      ELSE /\ t \in DOMAIN rev_merge /\ t \in DOMAIN rev_merge'
                           /\ rev_merge'[t] = rev_merge[t]]_vars

\* a span made by a merge whose text has, in the merge history, the pair of
\* another occurrence of that text
C24_Witness ==
    /\ pc \in {"merge", "emit"}
    /\ \E i \in DOMAIN symbols :
          /\ symbols[i].n > 0
          /\ SpanCodePoints(i - 1) >= 2
          /\ SymbolText(text, symbols[i]) \in DOMAIN rev_merge
          /\ rev_merge[SymbolText(text, symbols[i])][1] # i - 1

\* token_to_id and id_to_token of v agree, and v has every token "<0xHH>"
Consistent(v) ==
    /\ \A t \in DOMAIN v.token_to_id :
          /\ IsToken(v, t)
          /\ v.id_to_token[v.token_to_id[t] + 1].text = t
    /\ \A b \in 0..255 : ByteName(b) \in DOMAIN v.token_to_id

\* the ids of span i: that of its text if it is a token, else those of its bytes
SpanIds(i) ==
    LET t == SymbolText(text, symbols[i + 1])
    IN  IF t \in DOMAIN vocab.token_to_id
        THEN <<vocab.token_to_id[t]>>
        ELSE [j \in DOMAIN t |-> vocab.token_to_id[ByteName(t[j])]]

\* what the ids of span i stand for: the stored text of the id of a token, the
\* byte each byte-fallback id names
SpanBack(i) ==
    LET ids == SpanIds(i)
    IN  IF SymbolText(text, symbols[i + 1]) \in DOMAIN vocab.token_to_id
        THEN vocab.id_to_token[ids[1] + 1].text
        ELSE [j \in DOMAIN ids |-> llama_token_to_byte(vocab, ids[j]).byte]

\* the spans of the final walk that have been emitted, in the order of the walk
RECURSIVE EmittedFrom(_, _)
EmittedFrom(i, fuel) ==
    IF i = -1 \/ fuel = 0 \/ i = emit_i THEN <<>>
    ELSE <<i>> \o EmittedFrom(symbols[i + 1].next, fuel - 1)

\* the concatenation of F over the spans of w
RECURSIVE OverSpans(_, _)
OverSpans(F(_), w) ==
    IF w = <<>> THEN <<>> ELSE F(Head(w)) \o OverSpans(F, Tail(w))

(***************************************************************************)
(* C25: with a vocabulary whose two maps agree and that has every token    *)
(* "<0xHH>", the final walk does not fail; the ids emitted so far (after   *)
(* the BOS id, if asked for) are, span after span in the order of the      *)
(* text, the id of the span's text if it is a token and else one           *)
(* byte-fallback id per byte; and the stored texts of the ids, a           *)
(* byte-fallback id standing for its byte, make up the text tokenized up   *)
(* to the span the walk is at: the whole text when tokenize has returned.  *)
(***************************************************************************)
C25_RoundTrip ==
    (pc \in {"emit", "returned", "failed"} /\ raw_text # <<>> /\ Consistent(vocab))
        => /\ ~FailedInEmit
           /\ (pc \in {"emit", "returned"})
                 => LET done == EmittedFrom(0, Len(symbols))
                        upto == IF emit_i = -1 THEN Len(text)
                                ELSE symbols[emit_i + 1].text
                    IN  /\ output = Prefix \o OverSpans(SpanIds, done)
                        /\ OverSpans(SpanBack, done) = SubSeq(text, 1, upto)
                        /\ \A k \in 1..(Len(done) - 1) :
                              symbols[done[k] + 1].text < symbols[done[k + 1] + 1].text
           /\ pc = "returned" => EmittedFrom(0, Len(symbols)) = Walk

\* a call has returned whose final spans are a merged token and a code point
\* of several bytes that went through byte fallback
C25_Witness ==
    /\ pc = "returned" /\ raw_text # <<>> /\ Consistent(vocab)
    /\ \E i, j \in DOMAIN symbols :
          /\ symbols[i].n > 0 /\ symbols[j].n > 1
          /\ SpanCodePoints(i - 1) >= 2
          /\ SymbolText(text, symbols[j]) \notin DOMAIN vocab.token_to_id

\* the pairs of live spans of syms that follow each other in the walk
AdjacentPairs(syms) ==
    LET w == WalkFrom(syms, 0, Len(syms))
    IN  {<<w[k], w[k + 1]>> : k \in 1..(Len(w) - 1)}

\* the work queue holds a candidate for the pair with the lengths it has now
Queued(pair) ==
    \E k \in DOMAIN work_queue :
       /\ work_queue[k].left = pair[1] /\ work_queue[k].right = pair[2]
       /\ work_queue[k].size = symbols[pair[1] + 1].n + symbols[pair[2] + 1].n

\* the adjacent pairs of the next state that are new or whose text is new
FreshPairs ==
    {pair \in AdjacentPairs(symbols') :
        \/ pair \notin AdjacentPairs(symbols)
        \/ symbols'[pair[1] + 1].n # symbols[pair[1] + 1].n
        \/ symbols'[pair[2] + 1].n # symbols[pair[2] + 1].n}

(***************************************************************************)
(* C26: when the merge loop has ended the work queue is empty and no two   *)
(* adjacent live spans make, together, a token with an id in range.  The   *)
(* reason: the pairs a merge makes adjacent or changes are the pair to the *)
(* left and the pair to the right of the merged span, the two the step     *)
(* tries with their new texts, so that while the loops run every adjacent  *)
(* pair that can be registered (in the seeding loop: every such pair the   *)
(* loop has passed) has a candidate with its present lengths in the queue. *)
(***************************************************************************)
C26_LocalMaximum ==
    /\ []((pc \in {"emit", "returned"} /\ raw_text # <<>>)
            => /\ work_queue = <<>>
               /\ \A pair \in AdjacentPairs(symbols) :
                     ~IsToken(vocab, PairText(symbols, pair[1], pair[2])))
    /\ [](pc = "merge"
            => \A pair \in AdjacentPairs(symbols) :
                  Registerable(symbols, pair[1], pair[2]) => Queued(pair))
    /\ [](pc = "seed"
            => \A pair \in AdjacentPairs(symbols) :
                  (pair[2] < seed_i /\ Registerable(symbols, pair[1], pair[2]))
                      => Queued(pair))
    /\ [][(AtPop /\ symbols' # symbols)
            => /\ FreshPairs \subseteq
                    {<<symbols'[bigram'.left + 1].prev, bigram'.left>>,
                     <<bigram'.left, symbols'[bigram'.left + 1].next>>}
               /\ \A pair \in FreshPairs :
                     Registerable(symbols', pair[1], pair[2])
                        => \E k \in DOMAIN work_queue' :
                              /\ work_queue'[k].left = pair[1]
                              /\ work_queue'[k].right = pair[2]
                              /\ work_queue'[k].size = symbols'[pair[1] + 1].n
                                                       + symbols'[pair[2] + 1].n]_vars

\* the loop has ended, its last pop a merge, with a span of three code points
\* or more (the work of two merges) that still has a neighbour
C26_Witness ==
    /\ pc = "emit" /\ applied
    /\ Cardinality(AdjacentPairs(symbols)) >= 1
    /\ \E i \in DOMAIN symbols : symbols[i].n > 0 /\ SpanCodePoints(i - 1) >= 3

\* the merge loop is running or has run
InOrPastMerge == pc \in {"merge", "emit", "returned"} /\ raw_text # <<>>

(***************************************************************************)
(* C27: in the merge loop and after it, the text of every live span of     *)
(* more than one code point is a token with an id in range; a live span    *)
(* whose text is no such token is one code point of the split, with the    *)
(* length the split gave it.                                               *)
(***************************************************************************)
C27_MergedIsToken ==
    InOrPastMerge
        => \A i \in DOMAIN symbols :
              symbols[i].n > 0
                 => /\ SpanCodePoints(i - 1) >= 2
                         => IsToken(vocab, SymbolText(text, symbols[i]))
                    /\ ~IsToken(vocab, SymbolText(text, symbols[i]))
                         => /\ SpanCodePoints(i - 1) = 1
                            /\ symbols[i].n = utf8_len(text[symbols[i].text + 1])
                            /\ SymbolText(text, symbols[i]) = CodePoint(i)

\* the merge loop is at a pop with a merged span and, live next to it, a code
\* point that is no token
C27_Witness ==
    /\ AtPop
    /\ \E i, j \in DOMAIN symbols :
          /\ symbols[i].n > 0 /\ SpanCodePoints(i - 1) >= 2
          /\ symbols[j].n > 0
          /\ SymbolText(text, symbols[j]) \notin DOMAIN vocab.token_to_id
          /\ (symbols[i].next = j - 1 \/ symbols[j].next = i - 1)

\* the ids of the tokens "<0xHH>" of the bytes of t, as far as they exist
RECURSIVE ByteIdsWhile(_)
ByteIdsWhile(t) ==
    IF t = <<>> \/ ByteName(Head(t)) \notin DOMAIN vocab.token_to_id THEN <<>>
    ELSE <<vocab.token_to_id[ByteName(Head(t))]>> \o ByteIdsWhile(Tail(t))

(***************************************************************************)
(* C28: every key of the merge history is a key of token_to_id, so         *)
(* resegment never takes its recursive branch: no invocation is ever       *)
(* pending, each invocation is that of the next span of the final walk,    *)
(* and for a span whose text is no key of token_to_id it emits the         *)
(* byte-fallback ids of the bytes of the span, in order: all of them, or   *)
(* those before the first byte without token when the call fails there.    *)
(***************************************************************************)
C28_NoRecursion ==
    /\ [](DOMAIN rev_merge \subseteq DOMAIN vocab.token_to_id)
    /\ [](stack = <<>>)
    /\ [][(pc = "emit" /\ emit_i # -1
            /\ SymbolText(text, symbols[emit_i + 1]) \notin DOMAIN vocab.token_to_id)
            => LET t == SymbolText(text, symbols[emit_i + 1])
               IN  /\ t \notin DOMAIN rev_merge
                   /\ output' = output \o ByteIdsWhile(t)
                   /\ pc' = IF Len(ByteIdsWhile(t)) = Len(t) THEN "emit" ELSE "failed"
                   /\ pc' = "emit" => emit_i' = symbols[emit_i + 1].next]_vars

\* the final walk has emitted a span of several bytes that is no token, and
\* the merge history has entries
C28_Witness ==
    /\ pc = "emit" /\ rev_merge # <<>>
    /\ \E i \in DOMAIN symbols :
          /\ symbols[i].n > 1 /\ Emitted(i - 1)
          /\ SymbolText(text, symbols[i]) \notin DOMAIN vocab.token_to_id

\* symbol i (from 0) is live
Live(i) == i + 1 \in DOMAIN symbols /\ symbols[i + 1].n > 0

(***************************************************************************)
(* C29: once the span table is built, the next of a live span is -1 or the *)
(* index of a live span further right whose prev is that span, and its     *)
(* prev is -1 or the index of a live span further left whose next is that  *)
(* span (so no dead span is the prev or the next of a live one); span 0 is *)
(* live with prev -1, and no candidate has it as its right side.           *)
(***************************************************************************)
C29_Links ==
    (pc \in {"seed", "merge", "emit", "returned"} /\ raw_text # <<>>)
        => /\ Live(0) /\ symbols[1].prev = -1
           /\ bigram.right # 0
           /\ \A k \in DOMAIN work_queue : work_queue[k].right # 0
           /\ \A i \in 0..(Len(symbols) - 1) :
                 Live(i)
                    => /\ \/ symbols[i + 1].next = -1
                          \/ /\ symbols[i + 1].next > i
                             /\ Live(symbols[i + 1].next)
                             /\ symbols[symbols[i + 1].next + 1].prev = i
                       /\ \/ symbols[i + 1].prev = -1
                          \/ /\ symbols[i + 1].prev >= 0
                             /\ symbols[i + 1].prev < i
                             /\ Live(symbols[i + 1].prev)
                             /\ symbols[symbols[i + 1].prev + 1].next = i

\* in the merge loop, after merges: a live span whose prev is not the index
\* before it, and a dead span whose own links still name live spans
C29_Witness ==
    /\ pc = "merge" /\ applied
    /\ \E i \in 0..(Len(symbols) - 1) :
          Live(i) /\ symbols[i + 1].prev >= 0 /\ symbols[i + 1].prev < i - 1
    /\ \E i \in 0..(Len(symbols) - 1) :
          ~Live(i) /\ Live(symbols[i + 1].prev)

\* the length the high nibble of a first byte b stands for
NibbleLength(b) ==
    IF b \div 16 <= 11 THEN 1
    ELSE IF b \div 16 <= 13 THEN 2
    ELSE IF b \div 16 = 14 THEN 3
    ELSE 4

\* the spans built so far start at offset 0, follow each other without gap up
\* to offset upto, have the length of their first byte, and span i is linked
\* to i - 1 and to i + 1, the span that ends the string having next = -1
BuiltUpTo(upto) ==
    /\ \A i \in 0..(Len(symbols) - 1) :
          /\ symbols[i + 1].text = (IF i = 0 THEN 0
                                    ELSE symbols[i].text + symbols[i].n)
          /\ symbols[i + 1].n = NibbleLength(text[symbols[i + 1].text + 1])
          /\ symbols[i + 1].prev = i - 1
          /\ symbols[i + 1].next =
                (IF symbols[i + 1].text + symbols[i + 1].n = Len(text) THEN -1 ELSE i + 1)
    /\ upto = (IF symbols = <<>> THEN 0
               ELSE symbols[Len(symbols)].text + symbols[Len(symbols)].n)

(***************************************************************************)
(* C30: utf8_len gives 1 for a high nibble 0x0-0xB, 2 for 0xC-0xD, 3 for   *)
(* 0xE and 4 for 0xF; the split loop builds one span per first byte, of    *)
(* that length, each starting where the one before ends, span i with       *)
(* prev = i - 1 and next = i + 1; when the loop has ended the lengths add  *)
(* up to the size of the text and the last span has next = -1; and from    *)
(* then on the array keeps its length and every span its offset.           *)
(***************************************************************************)
C30_SpanTable ==
    /\ [](\A b \in 0..255 : utf8_len(b) = NibbleLength(b))
    /\ [](pc = "split" => (BuiltUpTo(offs) /\ index = Len(symbols)))
    /\ [](pc = "seed"
            => /\ BuiltUpTo(Len(text))
               /\ symbols[Len(symbols)].next = -1
               /\ \A i \in 1..(Len(symbols) - 1) : symbols[i].next = i)
    /\ [][(pc \in {"seed", "merge", "emit"})
            => /\ Len(symbols') = Len(symbols)
               /\ \A i \in DOMAIN symbols : symbols'[i].text = symbols[i].text]_vars

\* the split loop has ended on a table with spans of one byte, of two bytes
\* and of three bytes
C30_Witness ==
    /\ pc = "seed" /\ seed_i = 1
    /\ \A len \in 1..3 : \E i \in DOMAIN symbols : symbols[i].n = len

\* llama_token_to_text was called with an id of the vocabulary that is not a
\* byte token with a malformed name
DecodedWellNamed ==
    /\ DecodedInside
    /\ vocab.id_to_token[tok_id + 1].type = LLAMA_TOKEN_TYPE_BYTE
          => IsByteName(vocab.id_to_token[tok_id + 1])

(***************************************************************************)
(* C31: llama_token_to_str with a buffer of any length, shorter than the   *)
(* text of the token, as long or longer, writes at most length bytes: it   *)
(* writes nothing and returns minus the length of the text when the text   *)
(* is longer than the buffer, else it writes the text and returns its      *)
(* length.  So the second attempt of llama_token_to_text, made with the    *)
(* needed length, returns that length, and llama_token_to_text returns the *)
(* whole text and nothing more, also for a text of more than 8 bytes.      *)
(***************************************************************************)
C31_BufferKept ==
    DecodedWellNamed
        => LET full == TextByType(vocab, tok_id)
               first_try == llama_token_to_str(vocab, tok_id, FirstBufSize)
           IN  /\ \A length \in 0..(Len(full) + 1) :
                     LET r == llama_token_to_str(vocab, tok_id, length)
                     IN  /\ r.ok
                         /\ Len(r.buf) <= length
                         /\ IF length < Len(full)
                            THEN r.ret = -Len(full) /\ r.buf = <<>>
                            ELSE r.ret = Len(full) /\ r.buf = full
               /\ first_try.ret < 0
                     => llama_token_to_str(vocab, tok_id, -first_try.ret).ret
                           = -first_try.ret
               /\ tok_pc = "done"
               /\ tok_text = full

\* the text of a token that did not fit the first buffer was returned
C31_Witness ==
    /\ DecodedWellNamed /\ tok_pc = "done"
    /\ llama_token_to_str(vocab, tok_id, FirstBufSize).ret < 0
    /\ Len(tok_text) = -llama_token_to_str(vocab, tok_id, FirstBufSize).ret

\* the vocabulary has the token "<0xHH>" of byte b, with type byte
HasByteToken(v, b) ==
    /\ IsToken(v, ByteName(b))
    /\ v.id_to_token[v.token_to_id[ByteName(b)] + 1].type = LLAMA_TOKEN_TYPE_BYTE
    /\ v.id_to_token[v.token_to_id[ByteName(b)] + 1].text = ByteName(b)

(***************************************************************************)
(* C32: llama_byte_to_token(b) returns the id of the token "<0xHH>", HH    *)
(* the two uppercase hex digits of b, and fails when token_to_id has no    *)
(* such key; when that token is there with type byte, llama_token_to_byte  *)
(* of the id returns b; and llama_token_to_byte of an id whose type is not *)
(* byte fails.                                                             *)
(***************************************************************************)
C32_ByteRoundTrip ==
    /\ [][(tok_pc = "none" /\ tok_pc' \in {"token", "failed"} /\ Len(tok_text') = 1)
            => IF ByteName(tok_text'[1]) \in DOMAIN vocab.token_to_id
               THEN /\ tok_pc' = "token"
                    /\ tok_id' = vocab.token_to_id[ByteName(tok_text'[1])]
               ELSE tok_pc' = "failed"]_vars
    /\ [][(tok_pc = "token" /\ HasByteToken(vocab, tok_text[1]))
            => (tok_pc' = "byte" /\ tok_text' = <<tok_text[1], tok_text[1]>>)]_vars
    /\ [][(tok_pc = "none" /\ tok_pc' \in {"direct", "failed"} /\ Len(tok_text') # 1
            /\ vocab.id_to_token[tok_id' + 1].type # LLAMA_TOKEN_TYPE_BYTE)
            => tok_pc' = "failed"]_vars
    /\ [](tok_pc = "direct"
            => vocab.id_to_token[tok_id + 1].type = LLAMA_TOKEN_TYPE_BYTE)

\* the byte 0xAF came back from its token
C32_Witness ==
    /\ tok_pc = "byte" /\ tok_text = <<175, 175>>
    /\ HasByteToken(vocab, 175)

\* the ids tokenize has emitted: output after the BOS id, if one was asked for
EmittedIds == SubSeq(output, Len(Prefix) + 1, Len(output))

(***************************************************************************)
(* C33: every id tokenize emits for the text (every element of output      *)
(* after a BOS id) is an index of id_to_token, whatever the vocabulary.    *)
(***************************************************************************)
C33_EmittedInRange ==
    (pc \in {"emit", "returned"} /\ raw_text # <<>>)
        => \A k \in DOMAIN EmittedIds : InVocab(vocab, EmittedIds[k])

(***************************************************************************)
(* C34: a call of spm_tokenize with a text that is not empty and a         *)
(* vocabulary whose type is not SPM fails at once: it never returns, its   *)
(* output holds no id, not the BOS id either, and no span, candidate or    *)
(* history entry is ever made; nothing follows the failure.                *)
(***************************************************************************)
C34_OtherTypeIsFatal ==
    /\ []((vocab.type # LLAMA_VOCAB_TYPE_SPM /\ pc # "idle" /\ raw_text # <<>>)
            => /\ pc = "failed"
               /\ output = <<>>
               /\ symbols = <<>> /\ work_queue = <<>> /\ rev_merge = <<>>)
    /\ [][(vocab.type # LLAMA_VOCAB_TYPE_SPM /\ pc = "idle" /\ raw_text' # <<>>)
            => pc' = "failed"]_vars
    /\ [][pc # "failed"]_vars

\* a call with a BPE vocabulary that asked for the BOS id has failed
C34_Witness ==
    /\ pc = "failed" /\ vocab.type = LLAMA_VOCAB_TYPE_BPE
    /\ bos /\ escape /\ Len(raw_text) >= 2
    /\ <<>> # vocab.id_to_token

====
